---- MODULE Spec2Model ----
(***************************************************************************)
(* File-Sync: the incremental synchronisation pipeline of                  *)
(* workers/celery_worker_functional.py (token refresher, sync pass,        *)
(* document processing, prune, scheduler clean-up) as a state machine.     *)
(*                                                                         *)
(* Time is counted in minutes.  Tokens are naturals, 0 standing for a      *)
(* missing (None or empty) value, which Python's `or` treats alike.        *)
(* The relational store and the local file system are taken as reliable,   *)
(* except where a handler of the code wraps a store write of its own in a  *)
(* try block (the credential write of the token refresher); the network    *)
(* collaborators (token exchange, remote listing, download, search index)  *)
(* may fail at every call.                                                 *)
(*                                                                         *)
(* Spec is the whole pipeline.  The properties are checked on the parts    *)
(* of it they are about, each a specification over the same actions:       *)
(* SpecToken (one call of the token refresher), SpecPrune (direct prune    *)
(* passes over every initial store), SpecSync (scheduler and sync passes), *)
(* SpecRuns (Runs over time, with check_for_prune), SpecProcessing (sync   *)
(* passes with the processing tasks they queue), SpecSweep and             *)
(* SpecConverge (passes over stores that are in step with the remote),     *)
(* SpecRecover (passes that fail or are cut off), SpecOrphans (passes and  *)
(* processing tasks while the remote set changes).  SpecRace (concurrent   *)
(* calls of the token refresher), SpecTx (the transactions of sync and     *)
(* prune, statement by statement) and SpecBeat (check_for_indexing over    *)
(* more scopes than its limit; SpecBeatFair adds the fairness of the       *)
(* schedule) look at one part in finer steps.  The library functions have  *)
(* specifications of their own, which draw their inputs in the initial     *)
(* state: SpecList (the Box listing), SpecChunk (the chunker), SpecIndex   *)
(* and SpecResults (the search index and the processing of its hits),      *)
(* SpecEncode, SpecCache and SpecEngine (the embedding service, its cache  *)
(* and the module-level index functions), SpecLocal (the local copies).    *)
(***************************************************************************)
EXTENDS Integers, Sequences, FiniteSets, TLC

(***************************************************************************)
(* Bounds of the model.                                                    *)
(***************************************************************************)
MaxTok == 2
MaxClock == 3
MaxCalls == 1
MaxAttempts == 2
MaxTicks == 1
MaxRemoteChanges == 1
MaxPrunePasses == 2
MaxSweeps == 1

(***************************************************************************)
(* Program constants.                                                      *)
(***************************************************************************)
Margin == 5
RefreshExpiresIn == 60
OneDay == 1440
DueAfter == 5
IndexingLimit == 5

NoToken == 0
NoExp == -1
BadExp == -2

Scopes == {1, 2}
Files == {1, 2}
Creds == {1, 2}
CredOf == [s \in Scopes |-> s]

\* the provider configuration of a scope, as the set of files that pass its
\* root folders, extension allow-list and size limit
ScopeConfig == [s \in Scopes |-> IF s = 1 THEN Files ELSE {1}]
\* prune lists root folder "0" without filters: every file of the account
PruneConfig == Files

Attempts == 1..MaxAttempts
\* check_for_prune runs as process 0, sync pass a as process a
Pruner == 0
\* a direct call of _prune_deleted_documents
Direct == MaxAttempts + 1
Procs == {Pruner, Direct} \cup Attempts

VARIABLES
    now,          \* the clock, in minutes
    credential,   \* table credential: credential id -> credential_json
    call,         \* the last call of the token refresher and its outcome
    remote,       \* the files each credential's account holds
    outside,      \* those of them that only a listing of root "0" without filters yields
    listing,      \* a call of list_all_items: the folder tree, the config, the result
    search,       \* the records of the search index and the last call on it
    chunked,      \* a call of SmartChunker.chunk_document and its result
    engine,       \* index.py: the embedding model, both indexes, the last call
    tx,           \* the database transactions in flight, statement by statement
    storage,      \* a call of LocalStorage.sync_all_documents: rows, copies, stats
    beat,         \* check_for_indexing over a table of more scopes than its limit
    document,     \* table document: document id -> number of rows
    link,         \* table document_by_connector_credential_pair: rows per pair
    esIndex,      \* document ids with records in the search index
    localFiles,   \* Box file ids with a local copy
    attempt,      \* table index_attempt (the Runs)
    ccpair,       \* table connector_credential_pair (the scopes)
    nextAttempt,  \* the next id of index_attempt
    task,         \* the sync passes: position and locals of each
    pr,           \* the prune pass each process is in
    cfp,          \* the check_for_prune task
    cfi,          \* the scopes check_for_indexing has still to dispatch
    docq,         \* the queued docprocessing tasks
    hist          \* history: counters of the bounds and what the claims refer to

tokenVars == <<now, credential, call>>
storeVars == <<document, link, esIndex, localFiles>>
runVars == <<attempt, ccpair, nextAttempt>>
procVars == <<task, pr, cfp, cfi, docq>>
libVars == <<listing, search, chunked, engine, tx, storage, beat>>
pipeVars == <<remote, outside, storeVars, runVars, procVars, hist>>
vars == <<tokenVars, pipeVars, libVars>>

(***************************************************************************)
(* Token refresher.                                                        *)
(***************************************************************************)
Tokens == 0..MaxTok

\* Python's `a or b` on token values
Or(a, b) == IF a # NoToken THEN a ELSE b

CredJson ==
    [access_token : Tokens, box_access_token : Tokens,
     refresh_token : Tokens, box_refresh_token : Tokens,
     expires_at : {BadExp, NoExp} \cup (0..(MaxClock + RefreshExpiresIn))]

\* the credentials a token call may find in the store at the start
InitCreds ==
    [access_token : Tokens, box_access_token : {NoToken, MaxTok},
     refresh_token : Tokens, box_refresh_token : {NoToken, MaxTok},
     expires_at : {BadExp, NoExp} \cup (0..(MaxClock + Margin))]

\* what the provider answers to one refresh exchange
Responses ==
    [ok : {FALSE}, access_token : {NoToken}, refresh_token : {NoToken}]
        \cup [ok : {TRUE}, access_token : {NoToken, MaxTok},
                            refresh_token : {NoToken, MaxTok}]

\* a missing value and a string that is no ISO date both give None
parse_expires_at(val) == IF val < 0 THEN NoExp ELSE val

need_refresh(creds, t) ==
    LET exp == parse_expires_at(creds.expires_at)
    IN  exp = NoExp \/ t >= exp - Margin

\* the credential as the refresher rewrites it after a successful exchange
refreshed_creds(creds, t, toks) ==
    LET access == Or(creds.access_token, creds.box_access_token)
        refresh == Or(creds.refresh_token, creds.box_refresh_token)
    IN  [creds EXCEPT !.access_token = Or(toks.access_token, access),
                      !.refresh_token = Or(toks.refresh_token, refresh),
                      !.expires_at = t + RefreshExpiresIn]

\* One call (an exception of the exchange or of the store write is logged and
\* swallowed, and only a missing access token raises): creds is the credential
\* read from the store, toks the provider's answer should an exchange be made,
\* persistOK whether the store write goes through.  Gives the outcome, the token returned, the number of exchanges
\* made, whether the store was written, and the credential then stored.
get_valid_access_token(creds, t, toks, persistOK) ==
    LET access0 == Or(creds.access_token, creds.box_access_token)
        refresh == Or(creds.refresh_token, creds.box_refresh_token)
        exchange == need_refresh(creds, t) /\ refresh # NoToken
        fresh == refreshed_creds(creds, t, toks)
        access == IF exchange /\ toks.ok THEN fresh.access_token ELSE access0
        written == exchange /\ toks.ok /\ persistOK
        raised == access = NoToken
    IN  [raised |-> raised,
         token |-> IF raised THEN NoToken ELSE access,
         exchanges |-> IF exchange THEN 1 ELSE 0,
         refreshed |-> exchange /\ toks.ok,
         written |-> written,
         stored |-> IF written THEN fresh ELSE creds]

\* the outcomes one call can have on a credential, over the provider's
\* answers and the fate of the store write
TokenOutcomes(creds, t, answers) ==
    {get_valid_access_token(creds, t, toks, persistOK) :
        toks \in answers, persistOK \in BOOLEAN}

NoCall ==
    [status |-> "none", n |-> 0, cred |-> 1, at |-> 0, before |-> 0, toks |-> 0,
     persistOK |-> TRUE, result |-> 0]

\* a task reads credential c and asks the refresher for a token
TokenCall(c, toks, persistOK) ==
    LET r == get_valid_access_token(credential[c], now, toks, persistOK)
    IN  /\ call.n < MaxCalls
        /\ credential' = [credential EXCEPT ![c] = r.stored]
        /\ call' = [status |-> IF r.raised THEN "raised" ELSE "returned",
                    n |-> call.n + 1, cred |-> c, at |-> now, before |-> credential[c],
                    toks |-> toks, persistOK |-> persistOK, result |-> r]
        /\ UNCHANGED <<now, pipeVars, libVars>>

\* Concurrent calls of the refresher on one credential.  Each caller reads
\* the credential row, makes its exchange and writes the row, in three steps
\* that interleave with those of the others.  The provider numbers the token
\* sets it issues: call.issued is the number of the latest, the set of the
\* initial credential being number 1.  The store writes go through here.
MaxRaceProcs == 2
RaceProcs == 1..MaxRaceProcs
RaceCred == 1
NoRaceProc ==
    [pc |-> "start", exchanged |-> FALSE,
     creds |-> [access_token |-> NoToken, box_access_token |-> NoToken,
                refresh_token |-> NoToken, box_refresh_token |-> NoToken,
                expires_at |-> NoExp]]

\* UPDATE credential SET credential_json = :c WHERE id = :id
write_credential(stored, creds) == creds

\* the task reads credential_json
race_read(p) ==
    /\ call.status = "race"
    /\ call.procs[p].pc = "start"
    /\ call' = [call EXCEPT !.procs[p].pc = "read",
                            !.procs[p].creds = credential[RaceCred]]
    /\ UNCHANGED <<now, credential, pipeVars, libVars>>

\* connector.refresh_tokens with the refresh token the caller has read, when
\* a refresh is needed: the provider answers (answers is true) with the next
\* token set, or the exchange raises and the caller goes on with the token it
\* has.  The provider may refuse a refresh token it has replaced already, or
\* honour it.
race_exchange(p, answers) ==
    LET creds == call.procs[p].creds
        refresh == Or(creds.refresh_token, creds.box_refresh_token)
        toks == [ok |-> TRUE, access_token |-> call.issued + 1,
                 refresh_token |-> call.issued + 1]
    IN  /\ call.status = "race"
        /\ call.procs[p].pc = "read"
        /\ IF need_refresh(creds, now) /\ refresh # NoToken /\ answers
           THEN call' = [call EXCEPT !.issued = @ + 1,
                                     !.procs[p].pc = "write",
                                     !.procs[p].exchanged = TRUE,
                                     !.procs[p].creds = refreshed_creds(creds, now, toks)]
           ELSE call' = [call EXCEPT !.procs[p].pc = "done"]
        /\ UNCHANGED <<now, credential, pipeVars, libVars>>

\* the caller writes the credential it has updated
race_write(p) ==
    /\ call.status = "race"
    /\ call.procs[p].pc = "write"
    /\ credential' = [credential EXCEPT
                         ![RaceCred] = write_credential(@, call.procs[p].creds)]
    /\ call' = [call EXCEPT !.procs[p].pc = "done"]
    /\ UNCHANGED <<now, pipeVars, libVars>>

RaceNext ==
    \/ \E p \in RaceProcs : race_read(p)
    \/ \E p \in RaceProcs, answers \in BOOLEAN : race_exchange(p, answers)
    \/ \E p \in RaceProcs : race_write(p)

(***************************************************************************)
(* BoxConnector.list_all_items over a folder tree served in pages.         *)
(***************************************************************************)
\* the characters of the names and extensions of the model
Chars == {"a", "p", "P", "t", "."}

\* str.lower() on one character, on a string
lower_char(ch) == IF ch = "P" THEN "p" ELSE ch
lower(str) == [i \in DOMAIN str |-> lower_char(str[i])]

\* str.lstrip(".")
RECURSIVE lstrip_dot(_)
lstrip_dot(str) ==
    IF str # <<>> /\ Head(str) = "." THEN lstrip_dot(Tail(str)) ELSE str

\* name.rsplit(".", 1)[-1].lower() if "." in name else ""
extension(name) ==
    LET dots == {i \in DOMAIN name : name[i] = "."}
    IN  IF dots = {} THEN <<>>
        ELSE LET last == CHOOSE i \in dots : \A j \in dots : j <= i
             IN  lower(SubSeq(name, last + 1, Len(name)))

Range(seq) == {seq[i] : i \in DOMAIN seq}

\* a size the API does not report (None), a max_size_mb the config lacks
NoSize == -1
NoMb == -1
MB == 1024 * 1024

\* {e.lower().lstrip(".") for e in (config.get("include_exts") or [])}
include_exts(config) == {lstrip_dot(lower(e)) : e \in Range(config.include_exts)}

\* int(mb) * 1024 * 1024, or None
max_size(config) == IF config.max_size_mb = NoMb THEN NoSize ELSE config.max_size_mb * MB

allowed(config, name, size) ==
    /\ include_exts(config) # {} => extension(name) \in include_exts(config)
    /\ ~(max_size(config) # NoSize /\ size # NoSize /\ size > max_size(config))

\* GET /folders/{folder_id}/items?limit=&offset= : one page of the entries
get_items(tree, folder_id, offset, limit) ==
    LET all == tree[folder_id]
        to == IF offset + limit < Len(all) THEN offset + limit ELSE Len(all)
    IN  SubSeq(all, offset + 1, to)

\* the page size _walk_folder asks for (1000 in the code)
PageLimit == 2
MaxListCalls == 2

\* if len(entries) < limit: break
OnePageOnly(entries, limit) == TRUE
last_page(entries, limit) == Len(entries) < limit

\* _walk_folder from a given offset on, and the loop over the entries of one
\* page: the source ids in the order they are yielded
RECURSIVE walk_folder(_, _, _, _)
RECURSIVE walk_entries(_, _, _)
walk_entries(tree, config, entries) ==
    IF entries = <<>> THEN <<>>
    ELSE LET e == Head(entries)
             mine == IF e.type = "folder" THEN walk_folder(tree, config, e.id, 0)
                     ELSE IF e.type = "file"
                     THEN IF e.item_status = "trashed" THEN <<>>
                          ELSE IF ~allowed(config, e.name, e.size) THEN <<>>
                          ELSE <<e.id>>
                     ELSE <<>>
         IN  mine \o walk_entries(tree, config, Tail(entries))
walk_folder(tree, config, folder_id, offset) ==
    LET entries == get_items(tree, folder_id, offset, PageLimit)
    IN  IF entries = <<>> THEN <<>>
        ELSE walk_entries(tree, config, entries) \o
             (IF last_page(entries, PageLimit) THEN <<>>
              ELSE walk_folder(tree, config, folder_id, offset + Len(entries)))

\* config.get("folder_ids") or ["0"]
folder_ids(config) == IF config.folder_ids = <<>> THEN <<"0">> ELSE config.folder_ids

RECURSIVE walk_roots(_, _, _)
walk_roots(tree, config, roots) ==
    IF roots = <<>> THEN <<>>
    ELSE walk_folder(tree, config, Head(roots), 0) \o walk_roots(tree, config, Tail(roots))

box_list_all_items(tree, config) == walk_roots(tree, config, folder_ids(config))

\* The folder trees of the model: folder "0" holds folder "A", folder "B"
\* lies in "0" or in "A", and each file lies in one of the three.
FolderIds == {"0", "A", "B"}
ListFiles == 3
BoxFiles == 1..ListFiles
FileKinds ==
    { [name |-> <<"a", ".", "p">>, size |-> 1, item_status |-> "active"],
      [name |-> <<"a", ".", "P">>, size |-> MB, item_status |-> "active"],
      [name |-> <<"a">>, size |-> NoSize, item_status |-> "active"],
      [name |-> <<"a", ".", "p">>, size |-> MB + 1, item_status |-> "active"],
      [name |-> <<"a", ".", "p">>, size |-> 1, item_status |-> "trashed"],
      [name |-> <<"a", ".", "p", ".", "t">>, size |-> 1, item_status |-> "active"] }

FolderEntry(g) ==
    [type |-> "folder", id |-> g, name |-> <<"p", ".", "t">>, size |-> NoSize,
     item_status |-> "active"]
FileEntry(f, kind) ==
    [type |-> "file", id |-> f, name |-> kind.name, size |-> kind.size,
     item_status |-> kind.item_status]

TreeOf(parentB, place, kind, foldersFirst) ==
    [g \in FolderIds |->
        LET folders == (IF g = "0" THEN <<FolderEntry("A")>> ELSE <<>>) \o
                       (IF g = parentB THEN <<FolderEntry("B")>> ELSE <<>>)
            here == {f \in BoxFiles : place[f] = g}
            files == [i \in 1..Cardinality(here) |->
                        LET f == CHOOSE x \in here :
                                    Cardinality({y \in here : y < x}) = i - 1
                        IN  FileEntry(f, kind[f])]
        IN  IF foldersFirst THEN folders \o files ELSE files \o folders]

Trees(ff) ==
    {TreeOf(parentB, place, kind, ff) :
        parentB \in {"0", "A"}, place \in [BoxFiles -> FolderIds],
        kind \in [BoxFiles -> FileKinds]}

ListConfigs ==
    [folder_ids : {<<>>, <<"A">>, <<"B", "0">>},
     include_exts : {<<>>, << <<".", "P">> >>, << <<"t">>, <<"a">> >>},
     max_size_mb : {NoMb, 1}]

(***************************************************************************)
(* The chunker: DocumentChunker and SmartChunker.                          *)
(* A text is a sequence of paragraphs separated by blank lines, a          *)
(* paragraph a sequence of sentences separated by one space, a sentence a  *)
(* number of words of four characters separated by one space (the last     *)
(* ends in a full stop, the first begins with a capital).  A string is     *)
(* kept as its length, its number of words and the sentences of the text   *)
(* it holds (units: their places <<paragraph, sentence>> in the text), the *)
(* words repeated as overlap not counted.                                  *)
(***************************************************************************)
\* SmartChunker(chunk_size=512, overlap_size=50, min_chunk_size=100)
ChunkSize == 512
OverlapSize == 50
MinChunkSize == 100
\* len(p.strip()) > 50, len(s.strip()) > 10, 1 token = 4 characters
MinParagraphLen == 50
MinSentenceLen == 10
CharsPerToken == 4
WordLen == 4

MaxSentences == 2
MaxParagraphs == 3
SentenceWords == {2, 12, 200, 420}
Paragraphs == UNION {[1..n -> SentenceWords] : n \in 1..MaxSentences}
\* a list: items of five sentences of two words (49 characters each), alone
\* or after a paragraph of one long sentence
ItemSentences == 5
MaxItems == 6
ListItem == [i \in 1..ItemSentences |-> 2]
ListTexts ==
    {head \o [i \in 1..n |-> ListItem] : head \in {<<>>, << <<200>> >>}, n \in 1..MaxItems}
\* a list of more than 1000 characters
LongListItems == 21
LongList == [i \in 1..LongListItems |-> ListItem]
\* the texts of n paragraphs, and the lists
Texts(n) == [1..n -> Paragraphs] \cup ListTexts

\* the sentences of a text, each with its place in the text
Tag(text) ==
    [p \in 1..Len(text) |->
        [i \in 1..Len(text[p]) |-> [n |-> text[p][i], at |-> <<p, i>>]]]

EmptyStr == [len |-> 0, words |-> 0, units |-> {}]
\* n words joined by single spaces
words_str(n) ==
    IF n = 0 THEN EmptyStr ELSE [len |-> n * (WordLen + 1) - 1, words |-> n, units |-> {}]
\* a + sep + b, for a separator of sep characters of white space
join(a, sep, b) ==
    [len |-> a.len + sep + b.len, words |-> a.words + b.words,
     units |-> a.units \cup b.units]

sentence_str(sentence) == [words_str(sentence.n) EXCEPT !.units = {sentence.at}]
RECURSIVE SumWords(_)
SumWords(para) == IF para = <<>> THEN 0 ELSE Head(para).n + SumWords(Tail(para))
paragraph_str(para) ==
    [words_str(SumWords(para)) EXCEPT !.units = {para[i].at : i \in 1..Len(para)}]
RECURSIVE text_str(_)
text_str(text) ==
    IF Len(text) = 1 THEN paragraph_str(text[1])
    ELSE join(paragraph_str(Head(text)), 2, text_str(Tail(text)))

RECURSIVE Flatten(_)
Flatten(text) == IF text = <<>> THEN <<>> ELSE Head(text) \o Flatten(Tail(text))

\* _split_into_sentences: the sentences longer than 10 characters
split_into_sentences(sentences) ==
    SelectSeq(sentences, LAMBDA sentence : sentence_str(sentence).len > MinSentenceLen)

\* _split_into_paragraphs: the paragraphs longer than 50 characters
split_into_paragraphs(text) ==
    SelectSeq(text, LAMBDA para : paragraph_str(para).len > MinParagraphLen)

\* max(1, len(text) // 4)
estimate_tokens(str) ==
    IF str.len \div CharsPerToken >= 1 THEN str.len \div CharsPerToken ELSE 1

\* the last overlap_size words of the text, or the whole text: words the
\* chunk before holds already
get_overlap_text(str) ==
    IF str.words <= OverlapSize THEN [str EXCEPT !.units = {}] ELSE words_str(OverlapSize)

\* f"{doc_id}#chunk_{chunk_index}"
ChunkId(doc_id, chunk_index) == <<doc_id, "#chunk_", chunk_index>>
\* f"{doc_id}_para_{chunk_index}"
ParaDocId(doc_id, chunk_index) == <<doc_id, "_para_", chunk_index>>

create_chunk(doc_id, str, chunk_index, start_char, end_char) ==
    [chunk_id |-> ChunkId(doc_id, chunk_index),
     text |-> str,
     chunk_index |-> chunk_index,
     start_char |-> start_char,
     end_char |-> end_char,
     token_count |-> estimate_tokens(str),
     metadata |-> [parent_doc_id |-> doc_id, chunk_index |-> chunk_index, is_chunk |-> TRUE]]

\* the final chunk, when what is left is long enough
final_chunk(doc_id, st, text_len) ==
    IF st.cur.len > 0 /\ st.cur.len >= MinChunkSize
    THEN st.chunks \o <<create_chunk(doc_id, st.cur, st.chunk_index, st.current_start, text_len)>>
    ELSE st.chunks

\* DocumentChunker.chunk_document: the loop over the sentences
RECURSIVE sentence_loop(_, _, _)
sentence_loop(doc_id, sentences, st) ==
    IF sentences = <<>> THEN st
    ELSE LET sentence == sentence_str(Head(sentences))
             potential == IF st.cur.len > 0 THEN join(st.cur, 1, sentence) ELSE sentence
             overlap == get_overlap_text(st.cur)
             next ==
                IF estimate_tokens(potential) > ChunkSize /\ st.cur.len > 0
                THEN [chunks |-> st.chunks \o
                         <<create_chunk(doc_id, st.cur, st.chunk_index,
                                        st.current_start, st.start)>>,
                      cur |-> IF overlap.len > 0 THEN join(overlap, 1, sentence) ELSE sentence,
                      current_start |-> IF st.start - overlap.len > 0
                                        THEN st.start - overlap.len ELSE 0,
                      chunk_index |-> st.chunk_index + 1,
                      start |-> st.start + sentence.len + 1]
                ELSE [st EXCEPT !.cur = potential, !.start = @ + sentence.len + 1]
         IN  sentence_loop(doc_id, Tail(sentences), next)

StartChunking == [chunks |-> <<>>, cur |-> EmptyStr, current_start |-> 0,
                  chunk_index |-> 0, start |-> 0]

\* DocumentChunker.chunk_document(doc_id, text, metadata) on a text of the
\* given length and sentences
base_chunk_document(doc_id, str, sentences) ==
    IF str.len = 0 \/ str.len < MinChunkSize THEN <<>>
    ELSE IF split_into_sentences(sentences) = <<>> THEN <<>>
    ELSE final_chunk(doc_id,
                     sentence_loop(doc_id, split_into_sentences(sentences), StartChunking),
                     str.len)

\* the sub-chunks of an oversized paragraph, renumbered from chunk_index on:
\* chunk_id and the metadata are rewritten, the chunk_index field is not
RECURSIVE renumber(_, _, _)
renumber(doc_id, para_chunks, chunk_index) ==
    IF para_chunks = <<>> THEN <<>>
    ELSE <<[Head(para_chunks) EXCEPT
               !.chunk_id = ChunkId(doc_id, chunk_index),
               !.metadata.parent_doc_id = doc_id,
               !.metadata.chunk_index = chunk_index]>>
         \o renumber(doc_id, Tail(para_chunks), chunk_index + 1)

\* SmartChunker.chunk_document: the loop over the paragraphs
RECURSIVE paragraph_loop(_, _, _)
paragraph_loop(doc_id, paragraphs, st) ==
    IF paragraphs = <<>> THEN st
    ELSE LET paragraph == paragraph_str(Head(paragraphs))
             potential == IF st.cur.len > 0 THEN join(st.cur, 2, paragraph) ELSE paragraph
             chunk == create_chunk(doc_id, st.cur, st.chunk_index, st.current_start, st.start)
             para_chunks == base_chunk_document(ParaDocId(doc_id, st.chunk_index),
                                                paragraph, Head(paragraphs))
             next ==
                IF estimate_tokens(potential) > ChunkSize /\ st.cur.len > 0
                THEN IF estimate_tokens(paragraph) > ChunkSize
                     THEN [chunks |-> st.chunks \o <<chunk>> \o
                                      renumber(doc_id, para_chunks, st.chunk_index),
                           cur |-> EmptyStr,
                           current_start |-> st.start + paragraph.len + 2,
                           chunk_index |-> st.chunk_index + Len(para_chunks),
                           start |-> st.start + paragraph.len + 2]
                     ELSE [chunks |-> st.chunks \o <<chunk>>,
                           cur |-> paragraph,
                           current_start |-> st.start,
                           chunk_index |-> st.chunk_index + 1,
                           start |-> st.start + paragraph.len + 2]
                ELSE [st EXCEPT !.cur = potential, !.start = @ + paragraph.len + 2]
         IN  paragraph_loop(doc_id, Tail(paragraphs), next)

\* a chunker that keeps a text of any length, as one chunk
KeepsAnyText(doc_id, text) ==
    <<create_chunk(doc_id, text_str(Tag(text)), 0, 0, text_str(Tag(text)).len)>>

\* SmartChunker.chunk_document(doc_id, text, metadata)
smart_chunk_document(doc_id, text) ==
    LET tagged == Tag(text)
    IN  IF text_str(tagged).len = 0 \/ text_str(tagged).len < MinChunkSize THEN <<>>
        ELSE IF split_into_paragraphs(tagged) = <<>>
        THEN base_chunk_document(doc_id, text_str(tagged), Flatten(tagged))
        ELSE final_chunk(doc_id,
                         paragraph_loop(doc_id, split_into_paragraphs(tagged), StartChunking),
                         text_str(tagged).len)

(***************************************************************************)
(* The search index: AdvancedElasticsearchIndex over one index, whose      *)
(* records are kept as a set with one record per _id.                      *)
(***************************************************************************)
\* len(text) > 1000: only larger documents are chunked
ChunkThreshold == 1000
\* "chunks": chunks[:3]
TopChunks == 3
\* a record without the field parent_doc_id
NoParent == <<"none">>

\* es.index(index, id, body) / one action of bulk(): the record of that _id
\* is replaced
es_index(records, rec) == {r \in records : r.id # rec.id} \cup {rec}

RECURSIVE bulk(_, _)
bulk(records, docs_to_index) ==
    IF docs_to_index = <<>> THEN records
    ELSE bulk(es_index(records, Head(docs_to_index)), Tail(docs_to_index))

\* the body _index_single_document writes under _id = doc_id
single_record(doc_id, text, at) ==
    [id |-> doc_id, chunk_id |-> doc_id, doc_id |-> doc_id, parent_doc_id |-> NoParent,
     is_chunk |-> FALSE, chunk_index |-> 0, text |-> text_str(Tag(text)), indexed_at |-> at]

\* the body _index_document_with_chunks writes under _id = chunk.chunk_id:
\* **chunk.metadata comes last and so sets parent_doc_id, chunk_index, is_chunk
chunk_record(doc_id, chunk, at) ==
    [id |-> chunk.chunk_id, chunk_id |-> chunk.chunk_id, doc_id |-> doc_id,
     parent_doc_id |-> chunk.metadata.parent_doc_id,
     is_chunk |-> chunk.metadata.is_chunk, chunk_index |-> chunk.metadata.chunk_index,
     text |-> chunk.text, indexed_at |-> at]

\* AdvancedElasticsearchIndex.index_document(doc_id, title, text, ...) at
\* time at; ok tells whether the search index service answers
index_document(records, doc_id, text, at, ok) ==
    IF text = <<>>
    THEN [records |-> records, status |-> "skipped", chunks |-> 0]
    ELSE IF text_str(Tag(text)).len > ChunkThreshold
    THEN LET chunks == smart_chunk_document(doc_id, text)
             docs_to_index == [i \in 1..Len(chunks) |-> chunk_record(doc_id, chunks[i], at)]
         IN  IF chunks = <<>>
             THEN [records |-> records, status |-> "skipped", chunks |-> 0]
             ELSE IF ok
             THEN [records |-> bulk(records, docs_to_index), status |-> "success",
                   chunks |-> Len(chunks)]
             ELSE [records |-> records, status |-> "error", chunks |-> 0]
    ELSE IF ok
    THEN [records |-> es_index(records, single_record(doc_id, text, at)),
          status |-> "success", chunks |-> 1]
    ELSE [records |-> records, status |-> "error", chunks |-> 0]

\* the query of delete_document: should [term doc_id, term parent_doc_id,
\* term chunk_id], all three keyword fields
ParentOnly(rec, doc_id) == rec.parent_doc_id = doc_id
delete_query(rec, doc_id) ==
    \/ rec.doc_id = doc_id
    \/ rec.parent_doc_id = doc_id
    \/ rec.chunk_id = doc_id

\* AdvancedElasticsearchIndex.delete_document(doc_id)
delete_document(records, doc_id, ok) ==
    IF ok
    THEN [records |-> {r \in records : ~delete_query(r, doc_id)}, status |-> "success",
          deleted |-> Cardinality({r \in records : delete_query(r, doc_id)})]
    ELSE [records |-> records, status |-> "error", deleted |-> 0]

\* source.get("parent_doc_id", source.get("doc_id", hit["_id"]))
parent_id(rec) == IF rec.parent_doc_id # NoParent THEN rec.parent_doc_id ELSE rec.doc_id

\* the hits of a response: records in descending order of score, the score
\* of a hit being the number of hits from it to the end
HitScore(hits, i) == Len(hits) - i + 1

\* the parents in the order of their first hit (that of their maximal score)
RECURSIVE group_order(_, _)
group_order(hits, seen) ==
    IF hits = <<>> THEN <<>>
    ELSE IF parent_id(Head(hits)) \in seen THEN group_order(Tail(hits), seen)
    ELSE <<parent_id(Head(hits))>> \o
         group_order(Tail(hits), seen \cup {parent_id(Head(hits))})

\* the items in the order they have
KeepsOrder(items) == items

\* sorted(items, key=..., reverse=True) on items [key, val]: a stable sort,
\* the items of equal key staying in the order they had
RECURSIVE sorted_desc(_)
sorted_desc(items) ==
    IF items = <<>> THEN <<>>
    ELSE LET before == sorted_desc(SubSeq(items, 1, Len(items) - 1))
             x == items[Len(items)]
             n == Cardinality({i \in 1..Len(before) : before[i].key >= x.key})
         IN  SubSeq(before, 1, n) \o <<x>> \o SubSeq(before, n + 1, Len(before))

\* "max_score": the score of the first hit of the group, raised by every hit
\* of a greater score
RECURSIVE max_score(_, _)
max_score(group, m) ==
    IF group = <<>> THEN m
    ELSE max_score(Tail(group), IF Head(group).score > m THEN Head(group).score ELSE m)

\* _process_search_results on the hits of a response, each [hit, score]
process_response(scored) ==
    LET order == group_order([i \in 1..Len(scored) |-> scored[i].hit], {})
        doc_groups ==
            [k \in 1..Len(order) |->
                LET group == SelectSeq(scored, LAMBDA x : parent_id(x.hit) = order[k])
                IN  [key |-> max_score(group, group[1].score),
                     val |-> [doc_id |-> order[k], group |-> group]]]
        sorted_docs == sorted_desc(doc_groups)
    IN  [k \in 1..Len(sorted_docs) |->
            LET group == sorted_docs[k].val.group
                chunks == sorted_desc(
                    [i \in 1..Len(group) |->
                        [key |-> group[i].score,
                         val |-> [chunk_id |-> group[i].hit.id, score |-> group[i].score,
                                  text |-> group[i].hit.text,
                                  chunk_index |-> group[i].hit.chunk_index]]])
            IN  [doc_id |-> sorted_docs[k].val.doc_id,
                 score |-> sorted_docs[k].key,
                 chunks |-> [i \in 1..(IF Len(chunks) < TopChunks
                                       THEN Len(chunks) ELSE TopChunks) |-> chunks[i].val],
                 total_chunks |-> Len(chunks)]]

\* _process_search_results(response, query) on a response whose hits are in
\* descending order of score
process_search_results(hits) ==
    process_response([i \in 1..Len(hits) |-> [hit |-> hits[i], score |-> HitScore(hits, i)]])

\* the documents and texts of the calls of the model: no text, a short one,
\* texts of two and of three chunks, one with an oversized paragraph, a long
\* list
IndexDocs == {<<"box", f>> : f \in Files}
IndexTexts ==
    { <<>>,
      << <<12>> >>,
      << <<200, 200>>, <<200, 200>> >>,
      << <<200, 200>>, <<200, 200>>, <<200, 200>> >>,
      << <<200>>, <<200, 420>> >>,
      LongList }
MaxIndexCalls == 4
MaxHits == 2

\* the sequences of at most n distinct records of a set
RECURSIVE HitLists(_, _)
HitLists(records, n) ==
    IF n = 0 THEN {<<>>}
    ELSE {<<>>} \cup UNION {{<<r>> \o h : h \in HitLists(records \ {r}, n - 1)} : r \in records}

NoIndexCall == [op |-> "none"]

NoListing == [status |-> "idle"]
NoSearch == [status |-> "idle", records |-> {}, n |-> 0, last |-> NoIndexCall]
NoChunking == [status |-> "idle"]
NoEngine == [status |-> "idle"]
NoTx == [status |-> "idle"]
NoStorage == [status |-> "idle"]
NoBeat == [status |-> "idle"]

LibIdle ==
    /\ listing = NoListing
    /\ search = NoSearch
    /\ chunked = NoChunking
    /\ engine = NoEngine
    /\ tx = NoTx
    /\ storage = NoStorage
    /\ beat = NoBeat

(***************************************************************************)
(* The embedding service (EmbeddingService) and the module index.py over   *)
(* it: the advanced index "documents_advanced", built on first use, and    *)
(* the basic index "documents" the module falls back to.  The search index *)
(* service itself is taken to answer here.                                 *)
(***************************************************************************)
\* len(text) > 8000: text[:8000] + "..."
MaxEncodeLen == 8000
\* encode_batch(texts, batch_size): 32 in the code, small in the model
BatchSize == 2
MaxTexts == 4
MaxEngineCalls == 3

NoEmbedding == <<"None">>
\* what the sentence transformer returns for a text
Embedding(str) == <<"embedding", str>>
\* not text or not text.strip()
blank(str) == str.words = 0
truncate(str) ==
    IF str.len > MaxEncodeLen
    THEN [str EXCEPT !.len = MaxEncodeLen + 3, !.words = MaxEncodeLen \div (WordLen + 1) + 1]
    ELSE str

\* EmbeddingService.encode_text; model tells whether the model loads and
\* encodes
encode_text(str, model) ==
    IF blank(str) THEN NoEmbedding
    ELSE IF model THEN Embedding(truncate(str)) ELSE NoEmbedding

\* a failed batch adds nothing to the embeddings
DropsFailedBatch(batch) == <<>>
\* all_embeddings.extend([None] * len(batch))
failed_batch(batch) == [i \in 1..Len(batch) |-> NoEmbedding]
\* all_embeddings.extend(batch_embeddings)
model_encode(batch) == [i \in 1..Len(batch) |-> Embedding(batch[i])]

\* the loop over the batches of the filtered texts; failed holds the numbers
\* of the batches whose encoding raises
RECURSIVE encode_batches(_, _, _)
encode_batches(filtered_texts, b, failed) ==
    IF filtered_texts = <<>> THEN <<>>
    ELSE LET size == IF Len(filtered_texts) < BatchSize THEN Len(filtered_texts) ELSE BatchSize
             batch == SubSeq(filtered_texts, 1, size)
         IN  (IF b \in failed THEN failed_batch(batch) ELSE model_encode(batch))
             \o encode_batches(SubSeq(filtered_texts, size + 1, Len(filtered_texts)),
                               b + 1, failed)

\* EmbeddingService.encode_batch(texts); loads tells whether the model loads
encode_batch(texts, loads, failed) ==
    LET none == [i \in 1..Len(texts) |-> NoEmbedding]
        text_positions == SelectSeq([i \in 1..Len(texts) |-> i], LAMBDA i : ~blank(texts[i]))
        filtered_texts == [k \in 1..Len(text_positions) |-> truncate(texts[text_positions[k]])]
        all_embeddings == encode_batches(filtered_texts, 1, failed)
        zipped == IF Len(text_positions) < Len(all_embeddings)
                  THEN Len(text_positions) ELSE Len(all_embeddings)
    IN  IF texts = <<>> THEN <<>>
        ELSE IF ~loads THEN none
        ELSE IF filtered_texts = <<>> THEN none
        ELSE [i \in 1..Len(texts) |->
                 IF \E k \in 1..zipped : text_positions[k] = i
                 THEN all_embeddings[CHOOSE k \in 1..zipped : text_positions[k] = i]
                 ELSE NoEmbedding]

\* the texts of a batch: empty, white space only, short, longer than 8000
Spaces == [len |-> 3, words |-> 0, units |-> {}]
BatchTexts == {EmptyStr, Spaces, words_str(12), words_str(200), words_str(2000)}
Batches == UNION {[1..n -> BatchTexts] : n \in 0..MaxTexts}
BatchNumbers == 1..((MaxTexts + BatchSize - 1) \div BatchSize)

\* CachedEmbeddingService.  A text given to it is a string with its case
\* (upper: it has capital letters) and its padding (len counts the white
\* space around it); the cache is the dict _cache in its insertion order,
\* each entry with the number of the call that inserted it.
MaxCacheSize == 2
MaxCacheKeys == 3
MaxCacheCalls == 4
\* text.strip().lower()
strip_lower(text) == [words_str(text.words) EXCEPT !.units = text.units] @@ [upper |-> FALSE]
\* str(hash(text.strip().lower()))
cache_key(text) == <<"hash", strip_lower(text)>>

\* the last entry is removed
EvictNewest(cache) == SubSeq(cache, 1, Len(cache) - 1)
\* oldest_key = next(iter(self._cache)); del self._cache[oldest_key]
evict_oldest(cache) == Tail(cache)

\* CachedEmbeddingService.encode_text(text) as call number at; model tells
\* whether the model loads and encodes
cached_encode_text(cache, cache_size, text, model, at) ==
    LET key == cache_key(text)
        found == {i \in 1..Len(cache) : cache[i].key = key}
        embedding == encode_text(text, model)
    IN  IF blank(text) THEN [cache |-> cache, result |-> NoEmbedding, hit |-> FALSE]
        ELSE IF found # {}
        THEN [cache |-> cache, result |-> cache[CHOOSE i \in found : TRUE].embedding,
              hit |-> TRUE]
        ELSE IF embedding = NoEmbedding
        THEN [cache |-> cache, result |-> NoEmbedding, hit |-> FALSE]
        ELSE [cache |-> (IF Len(cache) >= cache_size THEN evict_oldest(cache) ELSE cache)
                        \o <<[key |-> key, embedding |-> embedding, at |-> at]>>,
              result |-> embedding, hit |-> FALSE]

\* the texts of the calls: MaxCacheKeys texts, each plain, with capitals and
\* padded with a space on each side, and a text of white space only
CacheTexts ==
    {[len |-> words_str(k).len + pad, words |-> k, units |-> {}, upper |-> u] :
        k \in 1..MaxCacheKeys, pad \in {0, 2}, u \in BOOLEAN}
    \cup {Spaces @@ [upper |-> FALSE]}

\* get_advanced_index: the instance of the module, built on first use.
\* Building it creates the index when there is none, and the mapping of a new
\* index asks the embedding service for its dimension, which loads the model;
\* when that raises the module stays without an instance.
get_advanced_index(e) ==
    IF e.advanced THEN e
    ELSE IF e.exists THEN [e EXCEPT !.advanced = TRUE]
    ELSE IF e.model THEN [e EXCEPT !.advanced = TRUE, !.exists = TRUE]
    ELSE e

\* the record of the advanced index with the vector its body got, if any
WithEmbedding(rec, model) == [rec |-> rec, embedding |-> encode_text(rec.text, model)]

\* index.index_document(doc_id, title, text): the advanced index, else the
\* basic one (client.index(id=doc_id) of title, text, link, metadata)
module_index_document(e, doc_id, text) ==
    LET e1 == get_advanced_index(e)
        at == e.n + 1
        r == index_document({w.rec : w \in e1.records}, doc_id, text, at, TRUE)
    IN  IF e1.advanced
        THEN [e1 EXCEPT
                 !.records = {w \in e1.records : w.rec \in r.records}
                             \cup {WithEmbedding(rec, e.model) :
                                      rec \in {x \in r.records : x.indexed_at = at}},
                 !.n = at,
                 !.last = [op |-> "index", doc_id |-> doc_id, model |-> e.model,
                           status |-> r.status, method |-> "advanced"]]
        ELSE [e1 EXCEPT
                 !.basic = {b \in @ : b.id # doc_id}
                           \cup {[id |-> doc_id, text |-> text_str(Tag(text))]},
                 !.n = at,
                 !.last = [op |-> "index", doc_id |-> doc_id, model |-> e.model,
                           status |-> "success", method |-> "basic"]]

\* AdvancedElasticsearchIndex.hybrid_search(query): what kind of query is run
advanced_hybrid_search(query, model) ==
    IF blank(query) THEN "empty"
    ELSE IF encode_text(query, model) = NoEmbedding THEN "keyword" ELSE "hybrid"

\* index.hybrid_search(query): raises without an instance
module_hybrid_search(e, query) ==
    LET e1 == get_advanced_index(e)
    IN  [e1 EXCEPT
            !.n = @ + 1,
            !.last = [op |-> "hybrid_search", model |-> e.model, query |-> query,
                      outcome |-> IF e1.advanced
                                  THEN advanced_hybrid_search(query, e.model)
                                  ELSE "RuntimeError"]]

\* index.search(q): the advanced hybrid search, else the basic multi_match
module_search(e, query) ==
    LET e1 == get_advanced_index(e)
    IN  [e1 EXCEPT
            !.n = @ + 1,
            !.last = [op |-> "search", model |-> e.model, query |-> query,
                      outcome |-> IF e1.advanced
                                  THEN advanced_hybrid_search(query, e.model)
                                  ELSE "basic"]]

Queries == {Spaces, words_str(2)}
EngineTexts == { << <<12>> >>, << <<200, 200>>, <<200, 200>> >> }

(***************************************************************************)
(* The stores of the pipeline.                                             *)
(***************************************************************************)
\* doc_id = f"box:{item.id}", and back: row[0].replace('box:', '')
DocId(f) == <<"box", f>>
BoxFileId(d) == d[2]
\* d.id LIKE 'box:%'
IsBox(d) == d[1] = "box"
DocIds == {DocId(f) : f \in Files}
Pairs == DocIds \X Scopes

NoTime == -1
\* no row of document for a file
NoRow == -2

RECURSIVE SortedSeq(_)
SortedSeq(S) ==
    IF S = {} THEN <<>>
    ELSE LET m == CHOOSE x \in S : \A y \in S : x <= y
         IN  <<m>> \o SortedSeq(S \ {m})

\* the files the connector yields with credential c under a configuration:
\* a file that was moved out of the configured folders, renamed or grown is
\* yielded only when the configuration is root "0" without filters
list_all_items(c, config) ==
    {f \in remote[c] : f \in config /\ (f \in outside[c] => config = Files)}

\* the rows a SELECT on document / the join table finds
DocExists(d) == document[d] > 0
Linked(d, s) == link[<<d, s>>] > 0
RefCount(lnk, d) ==
    LET RECURSIVE Sum(_)
        Sum(S) == IF S = {} THEN 0
                  ELSE LET s == CHOOSE x \in S : TRUE
                       IN  lnk[<<d, s>>] + Sum(S \ {s})
    IN  Sum(Scopes)

NoAttempt ==
    [status |-> "absent", cc |-> 0, new_docs_indexed |-> 0, error_msg |-> "",
     time_updated |-> 0]
\* tracked is the set of files the scope tracked when the pass listed the
\* remote set (the code keeps no such set: it is here for the properties)
\* enumerated tells how the remote enumeration of the pass ended
IdleTask ==
    [pc |-> "none", cc |-> 0, items |-> <<>>, n |-> 0, tracked |-> {},
     exists |-> FALSE, enumerated |-> "no"]
NoPrune ==
    [stage |-> "off", cc |-> 0, R |-> {}, L |-> {}, enumerated |-> "no",
     to_remove |-> {}, unlinked |-> {}, removed_from_db |-> 0,
     removed_local_files |-> 0, removed_from_es |-> 0, second |-> FALSE,
     prevR |-> {}, prevUnlinked |-> 0]
IdleCfp ==
    [pc |-> "idle", todo |-> <<>>, cleaned_attempts |-> 0, db_docs_removed |-> 0,
     local_files_removed |-> 0]

\* a credential as the authorization flow leaves it, and one without an
\* access token
FullCred ==
    [access_token |-> 1, box_access_token |-> NoToken, refresh_token |-> 1,
     box_refresh_token |-> NoToken, expires_at |-> RefreshExpiresIn]
RefreshOnlyCred ==
    [access_token |-> NoToken, box_access_token |-> NoToken, refresh_token |-> 1,
     box_refresh_token |-> NoToken, expires_at |-> NoExp]

\* the provider's answers the pipeline is run against
PipeResponses ==
    {[ok |-> FALSE, access_token |-> NoToken, refresh_token |-> NoToken],
     [ok |-> TRUE, access_token |-> MaxTok, refresh_token |-> MaxTok]}

NoHist ==
    [ticks |-> 0, changes |-> 0, prunes |-> 0, sweeps |-> 0, procFailed |-> {},
     last |-> [cc |-> 0, R |-> {}, unlinked |-> 0]]

PipeIdle ==
    /\ document = [d \in DocIds |-> 0]
    /\ link = [x \in Pairs |-> 0]
    /\ esIndex = {}
    /\ localFiles = {}
    /\ attempt = [a \in Attempts |-> NoAttempt]
    /\ ccpair = [s \in Scopes |->
                    [last_successful_index_time |-> NoTime,
                     last_attempt_status |-> "NOT_STARTED",
                     total_docs_indexed |-> 0]]
    /\ nextAttempt = 1
    /\ task = [a \in Attempts |-> IdleTask]
    /\ pr = [p \in Procs |-> NoPrune]
    /\ cfp = IdleCfp
    /\ cfi = <<>>
    /\ docq = {}
    /\ hist = NoHist
    /\ outside = [c \in Creds |-> {}]

Init ==
    /\ LibIdle
    /\ now = 0
    /\ credential \in [Creds -> {FullCred, RefreshOnlyCred}]
    /\ call = NoCall
    /\ remote = [c \in Creds |-> Files]
    /\ PipeIdle

\* calls on a credential that has expired, that has no expiry, or that is
\* fresh
RaceInit ==
    /\ LibIdle
    /\ now \in 0..MaxClock
    /\ \E e \in {NoExp, 0, RefreshExpiresIn} :
          credential = [c \in Creds |-> [FullCred EXCEPT !.expires_at = e]]
    /\ call = [status |-> "race", issued |-> 1, procs |-> [p \in RaceProcs |-> NoRaceProc]]
    /\ remote = [c \in Creds |-> Files]
    /\ PipeIdle

SpecRace == RaceInit /\ [][RaceNext]_vars

TokenInit ==
    /\ LibIdle
    /\ now \in 0..MaxClock
    /\ \E x \in InitCreds : credential = [c \in Creds |-> x]
    /\ call = NoCall
    /\ remote = [c \in Creds |-> Files]
    /\ PipeIdle

(***************************************************************************)
(* Creating Runs: the scheduler and the trigger endpoints.                 *)
(***************************************************************************)
\* INSERT INTO index_attempt (...) VALUES (:cc, 'IN_PROGRESS', NOW(), NOW())
\* and the dispatch of its connector_doc_fetching_task
NewAttempt(s) ==
    /\ nextAttempt <= MaxAttempts
    /\ attempt' = [attempt EXCEPT ![nextAttempt] =
                      [status |-> "IN_PROGRESS", cc |-> s, new_docs_indexed |-> 0,
                       error_msg |-> "", time_updated |-> now]]
    /\ task' = [task EXCEPT ![nextAttempt] =
                   [IdleTask EXCEPT !.pc = "queued", !.cc = s]]
    /\ nextAttempt' = nextAttempt + 1

\* a WHERE clause without the test of last_attempt_status for FAILED
DueByTimeOnly(s) ==
    \/ ccpair[s].last_successful_index_time = NoTime
    \/ ccpair[s].last_successful_index_time < now - DueAfter
    \/ ccpair[s].last_attempt_status = "NOT_STARTED"

\* the WHERE clause of check_for_indexing on one row of
\* connector_credential_pair at time t (every scope is ACTIVE and of Box)
DueRow(row, t) ==
    \/ row.last_successful_index_time = NoTime
    \/ row.last_successful_index_time < t - DueAfter
    \/ row.last_attempt_status \in {"FAILED", "NOT_STARTED"}

Due(s) == DueRow(ccpair[s], now)

\* ORDER BY COALESCE(last_successful_index_time, epoch) ASC LIMIT 5
RECURSIVE OldestFirst(_)
OldestFirst(S) ==
    IF S = {} THEN <<>>
    ELSE LET Key(s) == ccpair[s].last_successful_index_time
             m == CHOOSE x \in S :
                    \A y \in S : Key(x) < Key(y) \/ (Key(x) = Key(y) /\ x <= y)
         IN  <<m>> \o OldestFirst(S \ {m})

DueScopes ==
    LET all == OldestFirst({s \in Scopes : Due(s)})
    IN  SubSeq(all, 1, IF Len(all) < IndexingLimit THEN Len(all) ELSE IndexingLimit)

\* check_for_indexing: the query
check_for_indexing ==
    /\ cfi = <<>>
    /\ DueScopes # <<>>
    /\ nextAttempt <= MaxAttempts
    /\ cfi' = DueScopes
    /\ UNCHANGED <<tokenVars, remote, outside, libVars, storeVars, runVars, task, pr, cfp, docq, hist>>

\* check_for_indexing: one round of its loop (a Run, the scope's status, the
\* commit and the dispatch)
check_for_indexing_dispatch ==
    /\ cfi # <<>>
    /\ NewAttempt(Head(cfi))
    /\ ccpair' = [ccpair EXCEPT ![Head(cfi)].last_attempt_status = "IN_PROGRESS"]
    /\ cfi' = Tail(cfi)
    /\ UNCHANGED <<tokenVars, remote, outside, libVars, storeVars, pr, cfp, docq, hist>>

\* POST /api/v1/sync/{cc_pair_id}/trigger
trigger_sync(s) ==
    /\ NewAttempt(s)
    /\ UNCHANGED <<tokenVars, remote, outside, libVars, storeVars, ccpair, pr, cfp, cfi, docq, hist>>

\* POST /{cc_pair_id}/backfill
trigger_backfill(s) ==
    /\ NewAttempt(s)
    /\ ccpair' = [ccpair EXCEPT ![s].last_attempt_status = "IN_PROGRESS"]
    /\ UNCHANGED <<tokenVars, remote, outside, libVars, storeVars, pr, cfp, cfi, docq, hist>>

(***************************************************************************)
(* The sync pass: connector_doc_fetching_task.                             *)
(***************************************************************************)
\* the except branch of the task: the Run and the scope are marked FAILED
\* with the message of the exception, and the task raises
MarkRunOnly(a, msg) ==
    /\ attempt' = [attempt EXCEPT ![a] =
                      [@ EXCEPT !.status = "FAILED", !.time_updated = now,
                                !.error_msg = msg]]
    /\ UNCHANGED ccpair
MarkFailed(a, msg) ==
    /\ attempt' = [attempt EXCEPT ![a] =
                      IF @.status \in {"absent", "deleted"} THEN @
                      ELSE [@ EXCEPT !.status = "FAILED", !.time_updated = now,
                                     !.error_msg = msg]]
    /\ ccpair' = [ccpair EXCEPT ![task[a].cc].last_attempt_status = "FAILED"]

\* the task reads its scope and credential and resolves an access token
sync_token(a, r) ==
    LET s == task[a].cc
        c == CredOf[s]
    IN  /\ task[a].pc = "queued"
        /\ r \in TokenOutcomes(credential[c], now, PipeResponses)
        /\ credential' = [credential EXCEPT ![c] = r.stored]
        /\ IF r.raised
           THEN /\ MarkFailed(a, "No access token available for Box")
                /\ task' = [task EXCEPT ![a].pc = "failed"]
           ELSE /\ task' = [task EXCEPT ![a].pc = "list"]
                /\ UNCHANGED <<attempt, ccpair>>
        /\ UNCHANGED <<now, call, remote, outside, libVars, storeVars, nextAttempt, pr, cfp, cfi, docq, hist>>

\* the caller goes on with the files listed before the request that failed
KeepsPartial(items, ok) ==
    [raised |-> FALSE,
     items |-> IF ok THEN items ELSE SubSeq(items, 1, Len(items) - 1)]
\* list(list_all_items(...)): every file of the enumeration, or, when a
\* request for a page or a subfolder fails (ok is false), the exception of
\* raise_for_status and no list at all
list_or_raise(items, ok) ==
    [raised |-> ~ok, items |-> IF ok THEN items ELSE <<>>]

\* items = list(box_connector.list_all_items(access_token, config))
sync_list(a, ok) ==
    LET s == task[a].cc
        listed == list_or_raise(SortedSeq(list_all_items(CredOf[s], ScopeConfig[s])), ok)
        items == listed.items
        enumerated == IF ok THEN "whole" ELSE "failed"
    IN  /\ task[a].pc = "list"
        /\ IF ~listed.raised
           THEN /\ task' = [task EXCEPT ![a].items = items, ![a].n = 0,
                                ![a].tracked = {f \in Files : Linked(DocId(f), s)},
                                ![a].enumerated = enumerated,
                                ![a].pc = IF items = <<>> THEN "finalize" ELSE "select"]
                /\ UNCHANGED <<attempt, ccpair>>
           ELSE /\ MarkFailed(a, "listing failed")
                /\ task' = [task EXCEPT ![a].pc = "failed", ![a].enumerated = enumerated]
        /\ UNCHANGED <<tokenVars, remote, outside, libVars, storeVars, nextAttempt, pr, cfp, cfi, docq, hist>>

\* the head of one round of the loop: documents_processed += 1 and
\* SELECT 1 FROM document WHERE id = :id
sync_select(a) ==
    /\ task[a].pc = "select"
    /\ task' = [task EXCEPT ![a].n = @ + 1,
                    ![a].exists = DocExists(DocId(task[a].items[task[a].n + 1])),
                    ![a].pc = "insert"]
    /\ UNCHANGED <<tokenVars, remote, outside, libVars, storeVars, runVars, pr, cfp, cfi, docq, hist>>

\* the rest of the round's transaction: INSERT INTO document unless the row
\* was seen, INSERT INTO document_by_connector_credential_pair ... ON CONFLICT
\* DO NOTHING.  The primary key of document and the foreign key of the join
\* table reject the insert when another transaction has committed in between.
upsert_document(tbl, d, exists) ==
    IF exists THEN [ok |-> TRUE, rows |-> tbl]
    ELSE IF tbl[d] > 0 THEN [ok |-> FALSE, rows |-> tbl]
    ELSE [ok |-> TRUE, rows |-> [tbl EXCEPT ![d] = @ + 1]]

insert_link(lnk, d, s) ==
    IF lnk[<<d, s>>] > 0 THEN lnk ELSE [lnk EXCEPT ![<<d, s>>] = @ + 1]

sync_insert(a) ==
    LET s == task[a].cc
        d == DocId(task[a].items[task[a].n])
        up == upsert_document(document, d, task[a].exists)
        last == task[a].n = Len(task[a].items)
    IN  /\ task[a].pc = "insert"
        /\ IF up.ok /\ up.rows[d] > 0
           THEN /\ document' = up.rows
                /\ link' = insert_link(link, d, s)
                /\ docq' = docq \cup {[attempt |-> a, n |-> task[a].n, doc |-> d]}
                /\ task' = [task EXCEPT ![a].pc = IF last THEN "finalize" ELSE "select"]
                /\ UNCHANGED <<attempt, ccpair>>
           ELSE /\ MarkFailed(a, "integrity error")
                /\ task' = [task EXCEPT ![a].pc = "failed"]
                /\ UNCHANGED <<document, link, docq>>
        /\ UNCHANGED <<tokenVars, remote, outside, libVars, esIndex, localFiles, nextAttempt, pr, cfp, cfi, hist>>

\* the listing is done: the Run is marked SUCCESS and the scope updated
sync_finalize(a) ==
    LET s == task[a].cc
        docs_processed == task[a].n
    IN  /\ task[a].pc = "finalize"
        /\ attempt' = [attempt EXCEPT ![a] =
                          IF @.status \in {"absent", "deleted"} THEN @
                          ELSE [@ EXCEPT !.status = "SUCCESS", !.time_updated = now,
                                         !.new_docs_indexed = docs_processed]]
        /\ ccpair' = [ccpair EXCEPT ![s] =
                         [last_successful_index_time |-> now,
                          last_attempt_status |-> "SUCCESS",
                          total_docs_indexed |-> @.total_docs_indexed + docs_processed]]
        /\ task' = [task EXCEPT ![a].pc =
                       IF docs_processed > 0 THEN "localsync" ELSE "prune"]
        /\ UNCHANGED <<tokenVars, remote, outside, libVars, storeVars, nextAttempt, pr, cfp, cfi, docq, hist>>

\* LocalStorage(access_token).sync_all_documents(), any failure only logged:
\* every indexed document without a local copy is downloaded, and some of the
\* downloads may fail (the connector sets no modified_at, so a copy that
\* exists never needs an update)
sync_local(a, got) ==
    /\ task[a].pc = "localsync"
    /\ got \subseteq {f \in Files : DocExists(DocId(f))} \ localFiles
    /\ localFiles' = localFiles \cup got
    /\ task' = [task EXCEPT ![a].pc = "prune"]
    /\ UNCHANGED <<tokenVars, remote, outside, libVars, document, link, esIndex, runVars, pr, cfp, cfi, docq, hist>>

(***************************************************************************)
(* LocalStorage.sync_all_documents as a function of the rows of document,  *)
(* the local copies and the outcomes of os.remove and of the downloads.    *)
(***************************************************************************)
MaxStamp == 2
NoCopy == [modified |-> NoTime, whole |-> FALSE]
Copy(at) == [modified |-> at, whole |-> TRUE]
DownloadOutcomes == {"ok", "none", "cut"}

\* needs_update(doc, local_info) for a copy that exists: the row's
\* doc_updated_at (a datetime or NULL) is later than the copy's mtime
needs_update(doc_updated, local_info) ==
    doc_updated # NoTime /\ local_info.modified # NoTime /\ doc_updated > local_info.modified

\* download_box_file(box_file_id) at time at: the path and the file written,
\* None and no file when a request fails, None and a truncated file when the
\* body breaks off
download_box_file(copy, outcome, at) ==
    CASE outcome = "ok" -> [path |-> TRUE, copy |-> Copy(at)]
      [] outcome = "cut" -> [path |-> FALSE, copy |-> [modified |-> at, whole |-> FALSE]]
      [] OTHER -> [path |-> FALSE, copy |-> copy]

\* try: os.remove(local_info['local_path']) except Exception: pass
os_remove(copy, removed) == IF removed THEN NoCopy ELSE copy

\* the body of the loop for one indexed document
sync_document(doc_updated, copy, removed, outcome, at) ==
    IF copy # NoCopy
    THEN IF needs_update(doc_updated, copy)
         THEN LET got == download_box_file(os_remove(copy, removed), outcome, at)
              IN  [copy |-> got.copy, stat |-> IF got.path THEN "updated" ELSE "errors"]
         ELSE [copy |-> copy, stat |-> "skipped"]
    ELSE LET got == download_box_file(copy, outcome, at)
         IN  [copy |-> got.copy, stat |-> IF got.path THEN "downloaded" ELSE "errors"]

sync_all_documents(rows, local, removed, outcome, at) ==
    LET indexed == {f \in Files : rows[f] # NoRow}
        one(f) == sync_document(rows[f], local[f], removed[f], outcome[f], at)
        count(stat) == Cardinality({f \in indexed : one(f).stat = stat})
    IN  [local |-> [f \in Files |-> IF f \in indexed THEN one(f).copy ELSE local[f]],
         stats |-> [total |-> Cardinality(indexed), downloaded |-> count("downloaded"),
                    updated |-> count("updated"), skipped |-> count("skipped"),
                    errors |-> count("errors")]]

(***************************************************************************)
(* Reconciliation: _prune_deleted_documents, run by process p.             *)
(***************************************************************************)
Running(p) == pr[p].stage \in {"list", "db", "files", "es"}

\* who may enter _prune_deleted_documents(s): check_for_prune for the scope
\* at the head of its list, a sync pass at its prune step for its own scope,
\* a direct caller (whose consecutive passes hist keeps track of)
MayPrune(p, s) ==
    /\ ~Running(p)
    /\ CASE p = Pruner -> cfp.pc = "scopes" /\ cfp.todo # <<>> /\ s = Head(cfp.todo)
         [] p = Direct -> hist.prunes < MaxPrunePasses
         [] OTHER -> task[p].pc = "prune" /\ s = task[p].cc

NoRemovals ==
    [removed_from_db |-> 0, removed_local_files |-> 0, removed_from_es |-> 0]

\* the caller takes the result, or catches and logs the exception
PrunePropagates(p, result) ==
    IF p = Direct THEN UNCHANGED <<task, cfp>>
    ELSE IF p = Pruner
    THEN /\ cfp' = [cfp EXCEPT
                       !.todo = Tail(@),
                       !.db_docs_removed = @ + result.removed_from_db,
                       !.local_files_removed = @ + result.removed_local_files,
                       !.pc = IF Len(cfp.todo) = 1 THEN "idle" ELSE "scopes"]
         /\ UNCHANGED task
    ELSE /\ task' = [task EXCEPT ![p].pc = IF result = NoRemovals THEN "failed" ELSE "done"]
         /\ UNCHANGED cfp
PruneAborts(p, result) ==
    IF p = Direct THEN UNCHANGED <<task, cfp>>
    ELSE IF p = Pruner
    THEN /\ cfp' = [cfp EXCEPT
                       !.todo = IF result = NoRemovals THEN <<>> ELSE Tail(@),
                       !.db_docs_removed = @ + result.removed_from_db,
                       !.local_files_removed = @ + result.removed_local_files,
                       !.pc = IF Len(cfp.todo) = 1 \/ result = NoRemovals THEN "idle" ELSE "scopes"]
         /\ UNCHANGED task
    ELSE /\ task' = [task EXCEPT ![p].pc = "done"]
         /\ UNCHANGED cfp
PruneReturns(p, result) ==
    IF p = Direct THEN UNCHANGED <<task, cfp>>
    ELSE IF p = Pruner
    THEN /\ cfp' = [cfp EXCEPT
                       !.todo = Tail(@),
                       !.db_docs_removed = @ + result.removed_from_db,
                       !.local_files_removed = @ + result.removed_local_files,
                       !.pc = IF Len(cfp.todo) = 1 THEN "idle" ELSE "scopes"]
         /\ UNCHANGED task
    ELSE /\ task' = [task EXCEPT ![p].pc = "done"]
         /\ UNCHANGED cfp

\* the credential is read and a token resolved; without one the pass raises
prune_token(p, s, r) ==
    LET c == CredOf[s]
        prev == hist.last
    IN  /\ MayPrune(p, s)
        /\ r \in TokenOutcomes(credential[c], now, PipeResponses)
        /\ credential' = [credential EXCEPT ![c] = r.stored]
        /\ pr' = [pr EXCEPT ![p] =
                    [NoPrune EXCEPT !.cc = s,
                        !.second = (prev.cc = s), !.prevR = prev.R,
                        !.prevUnlinked = prev.unlinked,
                        !.stage = IF r.raised THEN "raised" ELSE "list"]]
        /\ hist' = IF p = Direct
                   THEN [hist EXCEPT !.prunes = @ + 1, !.last = NoHist.last]
                   ELSE hist
        /\ IF r.raised THEN PruneReturns(p, NoRemovals) ELSE UNCHANGED <<task, cfp>>
        /\ UNCHANGED <<now, call, remote, outside, libVars, storeVars, runVars, cfi, docq>>

\* items = list(box_connector.list_all_items(access_token, {"folder_ids": ["0"]}))
\* prefixed_box_ids = {f"box:{fid}" for fid in box_file_ids}
prune_list(p, ok) ==
    LET s == pr[p].cc
        listed == list_or_raise(SortedSeq(list_all_items(CredOf[s], PruneConfig)), ok)
        R == {DocId(listed.items[i]) : i \in 1..Len(listed.items)}
        enumerated == IF ok THEN "whole" ELSE "failed"
    IN  /\ pr[p].stage = "list"
        /\ IF ~listed.raised
           THEN /\ pr' = [pr EXCEPT ![p].R = R, ![p].stage = "db",
                                     ![p].enumerated = enumerated,
                                     ![p].second = @ /\ R = pr[p].prevR]
                /\ UNCHANGED <<task, cfp>>
           ELSE /\ pr' = [pr EXCEPT ![p].stage = "raised", ![p].enumerated = enumerated]
                /\ PruneReturns(p, NoRemovals)
        /\ UNCHANGED <<tokenVars, remote, outside, libVars, storeVars, runVars, cfi, docq, hist>>

\* SELECT d.id FROM document d JOIN document_by_connector_credential_pair dc ...
tracked_ids(doc, lnk, s) ==
    {d \in DocIds : doc[d] > 0 /\ lnk[<<d, s>>] > 0 /\ IsBox(d)}

\* to_remove = db_ids - prefixed_box_ids
RemoveAll(db_ids, remote_ids) == db_ids
to_remove(db_ids, remote_ids) == db_ids \ remote_ids

\* if other_count == 0: the document has no link left
DropAlways(other_count) == TRUE
unreferenced(other_count) == other_count = 0

\* the loop over to_remove inside the transaction
RECURSIVE remove_rows(_, _, _)
remove_rows(todo, s, st) ==
    IF todo = {} THEN st
    ELSE LET d == CHOOSE x \in todo : TRUE
             lnk == [st.link EXCEPT ![<<d, s>>] = 0]
             other_count == RefCount(lnk, d)
         IN  remove_rows(todo \ {d}, s,
                IF unreferenced(other_count)
                THEN [document |-> [st.document EXCEPT ![d] = 0],
                      link |-> [x \in Pairs |-> IF x[1] = d THEN 0 ELSE lnk[x]],
                      removed_from_db |-> st.removed_from_db + 1]
                ELSE [st EXCEPT !.link = lnk])

prune_db(p) ==
    LET s == pr[p].cc
        db_ids == tracked_ids(document, link, s)
        gone == to_remove(db_ids, pr[p].R)
        st == remove_rows(gone, s,
                 [document |-> document, link |-> link, removed_from_db |-> 0])
    IN  /\ pr[p].stage = "db"
        /\ document' = st.document
        /\ link' = st.link
        /\ pr' = [pr EXCEPT ![p].L = db_ids, ![p].to_remove = gone,
                     ![p].unlinked = {x \in Pairs : link[x] > 0 /\ st.link[x] = 0},
                     ![p].removed_from_db = st.removed_from_db,
                     ![p].stage = "files"]
        /\ UNCHANGED <<tokenVars, remote, outside, libVars, esIndex, localFiles, runVars, task, cfp, cfi, docq, hist>>

\* LocalStorage(access).cleanup_orphaned_files(): every local copy whose id
\* has no row in document is unlinked
prune_files(p) ==
    LET indexed_ids == {BoxFileId(d) : d \in {x \in DocIds : document[x] > 0 /\ IsBox(x)}}
        orphaned == localFiles \ indexed_ids
    IN  /\ pr[p].stage = "files"
        /\ localFiles' = localFiles \ orphaned
        /\ pr' = [pr EXCEPT ![p].removed_local_files = Cardinality(orphaned),
                     ![p].stage = "es"]
        /\ UNCHANGED <<tokenVars, remote, outside, libVars, document, link, esIndex, runVars, task, cfp, cfi, docq, hist>>

\* for doc_id in to_remove: delete_document(doc_id); a delete that fails
\* gives an error result, which the loop counts like a success
prune_es(p, deleted) ==
    LET result == [removed_from_db |-> pr[p].removed_from_db,
                   removed_local_files |-> pr[p].removed_local_files,
                   removed_from_es |-> Cardinality(pr[p].to_remove)]
    IN  /\ pr[p].stage = "es"
        /\ deleted \subseteq pr[p].to_remove
        /\ esIndex' = esIndex \ deleted
        /\ pr' = [pr EXCEPT ![p].removed_from_es = result.removed_from_es,
                     ![p].stage = "done"]
        /\ hist' = IF p = Direct
                   THEN [hist EXCEPT !.last = [cc |-> pr[p].cc, R |-> pr[p].R,
                                               unlinked |-> Cardinality(pr[p].unlinked)]]
                   ELSE hist
        /\ PruneReturns(p, result)
        /\ UNCHANGED <<tokenVars, remote, outside, libVars, document, link, localFiles, runVars, cfi, docq>>

(***************************************************************************)
(* check_for_prune: clean-up of old failed Runs, then a prune per scope.   *)
(***************************************************************************)
\* DELETE FROM index_attempt WHERE status = 'FAILED'
\*   AND time_updated < NOW() - INTERVAL '1 day'
AnyOldRun(row, t) == row.status \in {"FAILED", "SUCCESS", "IN_PROGRESS"} /\ row.time_updated < t - OneDay
cleanup_deletes(row, t) == row.status = "FAILED" /\ row.time_updated < t - OneDay

check_for_prune ==
    LET gone == {a \in Attempts : cleanup_deletes(attempt[a], now)}
        scopes == SortedSeq(Scopes)
    IN  /\ cfp.pc = "idle"
        /\ hist.sweeps < MaxSweeps
        /\ attempt' = [a \in Attempts |->
                          IF a \in gone THEN [NoAttempt EXCEPT !.status = "deleted"]
                          ELSE attempt[a]]
        /\ cfp' = [pc |-> "scopes", todo |-> scopes,
                   cleaned_attempts |-> Cardinality(gone),
                   db_docs_removed |-> 0, local_files_removed |-> 0]
        /\ hist' = [hist EXCEPT !.sweeps = @ + 1]
        /\ UNCHANGED <<tokenVars, remote, outside, libVars, storeVars, ccpair, nextAttempt, task, pr, cfi, docq>>

(***************************************************************************)
(* docprocessing_task: one queued document is downloaded and indexed.      *)
(***************************************************************************)
\* t is the queued task, s a scope that links the document (0 when no link
\* is left, and then no token is resolved), r the outcome of the token call,
\* got whether the download of a missing local copy succeeds, indexed whether
\* index_document succeeds (after its fall-back)
docprocessing_task(t, s, r, got, indexed) ==
    LET d == t.doc
        f == BoxFileId(d)
        c == IF s = 0 THEN 1 ELSE CredOf[s]
        raised == s # 0 /\ r.raised
    IN  /\ t \in docq
        /\ IF \E x \in Scopes : Linked(d, x) THEN s \in Scopes /\ Linked(d, s) ELSE s = 0
        /\ r \in TokenOutcomes(credential[c], now, PipeResponses)
        /\ (raised \/ f \in localFiles) => ~got
        /\ raised => ~indexed
        /\ docq' = docq \ {t}
        /\ credential' = IF s = 0 THEN credential
                         ELSE [credential EXCEPT ![c] = r.stored]
        /\ localFiles' = IF ~raised /\ got THEN localFiles \cup {f} ELSE localFiles
        /\ esIndex' = IF ~raised /\ indexed THEN esIndex \cup {d} ELSE esIndex
        /\ hist' = IF raised \/ ~indexed
                   THEN [hist EXCEPT !.procFailed = @ \cup {t.attempt}]
                   ELSE hist
        /\ UNCHANGED <<now, call, remote, outside, libVars, document, link, runVars, task, pr, cfp, cfi>>

(***************************************************************************)
(* The environment: the remote file set changes and time passes.           *)
(***************************************************************************)
remote_change(c, f) ==
    /\ hist.changes < MaxRemoteChanges
    /\ remote' = [remote EXCEPT ![c] = IF f \in @ THEN @ \ {f} ELSE @ \cup {f}]
    /\ hist' = [hist EXCEPT !.changes = @ + 1]
    /\ UNCHANGED <<tokenVars, outside, libVars, storeVars, runVars, procVars>>

\* an edit of a remote file takes it out of the configurations that filter:
\* it is moved to a folder they do not list, renamed, or grows
remote_leaves_config(c, f) ==
    /\ hist.changes < MaxRemoteChanges
    /\ f \in remote[c] \ outside[c]
    /\ outside' = [outside EXCEPT ![c] = @ \cup {f}]
    /\ hist' = [hist EXCEPT !.changes = @ + 1]
    /\ UNCHANGED <<tokenVars, remote, libVars, storeVars, runVars, procVars>>

TickSteps == {OneDay, OneDay + 1}

\* a long time passes: the tasks take seconds and the steps of time are of
\* a day, so the clock moves while no task is running
tick(d) ==
    /\ hist.ticks < MaxTicks
    /\ \A a \in Attempts : task[a].pc \in {"none", "done", "failed"}
    /\ cfp.pc = "idle"
    /\ cfi = <<>>
    /\ now' = now + d
    /\ hist' = [hist EXCEPT !.ticks = @ + 1]
    /\ UNCHANGED <<credential, call, remote, outside, libVars, storeVars, runVars, procVars>>

(***************************************************************************)
(* The pipeline.                                                           *)
(***************************************************************************)
\* the outcomes of a token call for scope s now
Outcomes(s) == TokenOutcomes(credential[CredOf[s]], now, PipeResponses)

(***************************************************************************)
(* The transactions of the sync loop and of the prune task on document and *)
(* its link table, statement by statement, as PostgreSQL runs them at its  *)
(* default isolation level READ COMMITTED (create_engine sets no other): a *)
(* statement reads the rows committed when it starts and the writes of its *)
(* own transaction, and it waits for every transaction that holds a lock   *)
(* on a row it writes.  document and link are the committed rows.          *)
(***************************************************************************)
MaxTxProcs == 2
MaxTxCalls == 4
TxProcs == 1..MaxTxProcs
NoTxProc ==
    [op |-> "none", pc |-> "idle", id |-> DocId(1), cc |-> 1, exists |-> FALSE,
     other_count |-> 0, created |-> FALSE, linked |-> FALSE, unlinked |-> FALSE,
     dropped |-> FALSE]
TxOpen(t) == tx.procs[t].pc \notin {"idle", "done", "failed"}
\* the other transactions in flight that hold a lock on a row of document d
\* or of one of its links
Holders(t, held(_)) ==
    {u \in TxProcs \ {t} : TxOpen(u) /\ tx.procs[u].id = tx.procs[t].id /\ held(tx.procs[u])}
TxStep(t, next) ==
    /\ tx' = [tx EXCEPT !.procs[t] = next]
    /\ UNCHANGED <<tokenVars, pipeVars, listing, search, chunked, engine, storage, beat>>

\* with engine.begin() as conn: SELECT 1 FROM document WHERE id = :id
sync_tx_select(t, s, d) ==
    /\ tx.status = "tx"
    /\ ~TxOpen(t)
    /\ tx.n < MaxTxCalls
    /\ tx' = [tx EXCEPT !.n = @ + 1,
                 !.procs[t] = [NoTxProc EXCEPT !.op = "sync", !.id = d, !.cc = s,
                                 !.exists = document[d] > 0,
                                 !.pc = IF document[d] > 0 THEN "link" ELSE "document"]]
    /\ UNCHANGED <<tokenVars, pipeVars, listing, search, chunked, engine, storage, beat>>

\* INSERT INTO document: it waits for an uncommitted row of the same id; a
\* committed one violates the primary key and rolls the transaction back
sync_tx_document(t) ==
    LET me == tx.procs[t]
    IN  /\ tx.status = "tx"
        /\ me.pc = "document"
        /\ Holders(t, LAMBDA u : u.created \/ u.dropped) = {}
        /\ TxStep(t, IF document[me.id] > 0
                     THEN [me EXCEPT !.pc = "failed"]
                     ELSE [me EXCEPT !.created = TRUE, !.pc = "link"])

\* INSERT INTO document_by_connector_credential_pair ... ON CONFLICT DO
\* NOTHING: a committed row of the same key makes it a no-op; otherwise the
\* foreign key wants the document row, which the insert then locks
sync_tx_link(t) ==
    LET me == tx.procs[t]
    IN  /\ tx.status = "tx"
        /\ me.pc = "link"
        /\ Holders(t, LAMBDA u : u.dropped \/ (u.cc = me.cc /\ (u.linked \/ u.unlinked))) = {}
        /\ TxStep(t, IF link[<<me.id, me.cc>>] > 0
                     THEN [me EXCEPT !.pc = "commit"]
                     ELSE IF me.created \/ document[me.id] > 0
                     THEN [me EXCEPT !.linked = TRUE, !.pc = "commit"]
                     ELSE [me EXCEPT !.pc = "failed"])

\* with engine.begin() as conn: SELECT d.id FROM document d JOIN ...; the
\* transaction is followed for one id of to_remove, a file gone from Box
prune_tx_select(t, s, d) ==
    /\ tx.status = "tx"
    /\ ~TxOpen(t)
    /\ tx.n < MaxTxCalls
    /\ d \in to_remove(tracked_ids(document, link, s), {})
    /\ tx' = [tx EXCEPT !.n = @ + 1,
                 !.procs[t] = [NoTxProc EXCEPT !.op = "prune", !.id = d, !.cc = s,
                                 !.pc = "unlink"]]
    /\ UNCHANGED <<tokenVars, pipeVars, listing, search, chunked, engine, storage, beat>>

\* DELETE FROM document_by_connector_credential_pair WHERE id = :doc_id AND
\* connector_credential_pair_id = :cc_pair_id
prune_tx_unlink(t) ==
    LET me == tx.procs[t]
    IN  /\ tx.status = "tx"
        /\ me.pc = "unlink"
        /\ Holders(t, LAMBDA u : u.dropped \/ (u.cc = me.cc /\ (u.linked \/ u.unlinked))) = {}
        /\ TxStep(t, [me EXCEPT !.unlinked = link[<<me.id, me.cc>>] > 0, !.pc = "count"])

\* SELECT COUNT(*) FROM document_by_connector_credential_pair WHERE id =
\* :doc_id: the committed links, less the one this transaction deleted
prune_tx_count(t) ==
    LET me == tx.procs[t]
        seen == [link EXCEPT ![<<me.id, me.cc>>] = IF me.unlinked THEN 0 ELSE @]
        other_count == RefCount(seen, me.id)
    IN  /\ tx.status = "tx"
        /\ me.pc = "count"
        /\ TxStep(t, [me EXCEPT !.other_count = other_count,
                                !.pc = IF unreferenced(other_count) THEN "drop" ELSE "commit"])

\* DELETE FROM document WHERE id = :doc_id, which deletes the links of the
\* document too (ondelete="CASCADE"); it waits for the transactions that
\* hold the document row or one of its links
prune_tx_drop(t) ==
    LET me == tx.procs[t]
    IN  /\ tx.status = "tx"
        /\ me.pc = "drop"
        /\ Holders(t, LAMBDA u : u.created \/ u.dropped \/ u.linked \/ u.unlinked) = {}
        /\ TxStep(t, [me EXCEPT !.dropped = document[me.id] > 0, !.pc = "commit"])

\* leaving the with block commits what the transaction wrote
tx_commit(t) ==
    LET me == tx.procs[t]
    IN  /\ tx.status = "tx"
        /\ me.pc = "commit"
        /\ document' = [document EXCEPT ![me.id] = IF me.dropped THEN 0
                                                   ELSE IF me.created THEN 1 ELSE @]
        /\ link' = [x \in Pairs |->
                       IF x[1] = me.id /\ me.dropped THEN 0
                       ELSE IF x = <<me.id, me.cc>> /\ me.unlinked THEN 0
                       ELSE IF x = <<me.id, me.cc>> /\ me.linked THEN 1
                       ELSE link[x]]
        /\ tx' = [tx EXCEPT !.procs[t].pc = "done"]
        /\ UNCHANGED <<tokenVars, remote, outside, esIndex, localFiles, runVars, procVars, hist, listing, search, chunked, engine, storage, beat>>

TxNext ==
    \/ \E t \in TxProcs, s \in Scopes, d \in DocIds : sync_tx_select(t, s, d)
    \/ \E t \in TxProcs : sync_tx_document(t)
    \/ \E t \in TxProcs : sync_tx_link(t)
    \/ \E t \in TxProcs, s \in Scopes, d \in DocIds : prune_tx_select(t, s, d)
    \/ \E t \in TxProcs : prune_tx_unlink(t)
    \/ \E t \in TxProcs : prune_tx_count(t)
    \/ \E t \in TxProcs : prune_tx_drop(t)
    \/ \E t \in TxProcs : tx_commit(t)


(***************************************************************************)
(* check_for_indexing on a table of more scopes than its LIMIT: the beat   *)
(* schedule runs the task again and again, each dispatched pass ends in    *)
(* success or in failure.  The clock stands still at BeatNow.              *)
(***************************************************************************)
MaxBeatScopes == 6
BeatScopes == 1..MaxBeatScopes
BeatNow == DueAfter + 1

\* check_for_indexing: the scopes its query returns, the due rows that fewer
\* than LIMIT due rows precede in the order of ORDER BY
\* COALESCE(last_successful_index_time, epoch) ASC (rows of equal time by id)
beat_query(cc) ==
    {s \in BeatScopes :
        /\ DueRow(cc[s], BeatNow)
        /\ Cardinality({y \in BeatScopes :
               /\ DueRow(cc[y], BeatNow)
               /\ \/ cc[y].last_successful_index_time < cc[s].last_successful_index_time
                  \/ /\ cc[y].last_successful_index_time = cc[s].last_successful_index_time
                     /\ y < s}) < IndexingLimit}

\* check_for_indexing, one run of the task: the query, and for every row it
\* returns a Run, the scope's status IN_PROGRESS and the dispatch of a pass
beat_check ==
    /\ beat.status = "beat"
    /\ beat' = [status |-> "beat",
                cc |-> [s \in BeatScopes |->
                           IF s \in beat_query(beat.cc)
                           THEN [beat.cc[s] EXCEPT !.last_attempt_status = "IN_PROGRESS"]
                           ELSE beat.cc[s]],
                running |-> beat.running \cup beat_query(beat.cc)]
    /\ UNCHANGED <<tokenVars, pipeVars, listing, search, chunked, engine, tx, storage>>

\* connector_doc_fetching_task of scope s ends: the final UPDATE of the
\* scope, or the one of its except branch
beat_pass(s, ok) ==
    /\ beat.status = "beat"
    /\ s \in beat.running
    /\ beat' = [beat EXCEPT !.running = @ \ {s},
                   !.cc[s] = IF ok
                             THEN [last_successful_index_time |-> BeatNow,
                                   last_attempt_status |-> "SUCCESS"]
                             ELSE [@ EXCEPT !.last_attempt_status = "FAILED"]]
    /\ UNCHANGED <<tokenVars, pipeVars, listing, search, chunked, engine, tx, storage>>

BeatNext ==
    \/ beat_check
    \/ \E s \in BeatScopes, ok \in BOOLEAN : beat_pass(s, ok)

SchedulerNext ==
    \/ check_for_indexing
    \/ check_for_indexing_dispatch
    \/ \E s \in Scopes : trigger_sync(s)
    \/ \E s \in Scopes : trigger_backfill(s)

SyncNext ==
    \/ \E a \in Attempts :
          task[a].pc = "queued" /\ \E r \in Outcomes(task[a].cc) : sync_token(a, r)
    \/ \E a \in Attempts, ok \in BOOLEAN : sync_list(a, ok)
    \/ \E a \in Attempts : sync_select(a)
    \/ \E a \in Attempts : sync_insert(a)
    \/ \E a \in Attempts : sync_finalize(a)
    \/ \E a \in Attempts :
          task[a].pc = "localsync" /\ \E got \in SUBSET (Files \ localFiles) : sync_local(a, got)

PruneSteps(p) ==
    \/ \E s \in Scopes : MayPrune(p, s) /\ \E r \in Outcomes(s) : prune_token(p, s, r)
    \/ \E ok \in BOOLEAN : prune_list(p, ok)
    \/ prune_db(p)
    \/ prune_files(p)
    \/ pr[p].stage = "es" /\ \E deleted \in SUBSET pr[p].to_remove : prune_es(p, deleted)

DocNext ==
    \E t \in docq, s \in {0} \cup Scopes :
        \E r \in TokenOutcomes(credential[IF s = 0 THEN 1 ELSE CredOf[s]], now, PipeResponses),
           got \in BOOLEAN, indexed \in BOOLEAN :
            docprocessing_task(t, s, r, got, indexed)

EnvNext ==
    \/ \E c \in Creds, f \in Files : remote_change(c, f)
    \/ \E c \in Creds, f \in Files : remote_leaves_config(c, f)
    \/ \E d \in TickSteps : tick(d)

Next ==
    \/ SchedulerNext
    \/ SyncNext
    \/ \E a \in Attempts : PruneSteps(a)
    \/ check_for_prune
    \/ PruneSteps(Pruner)
    \/ DocNext
    \/ EnvNext

Spec == Init /\ [][Next]_vars

(***************************************************************************)
(* The sync passes on their own: Runs are created and their tasks run to   *)
(* the end, inline prune included, on credentials that need no refresh.    *)
(***************************************************************************)
SyncInit ==
    /\ LibIdle
    /\ now = 0
    /\ credential = [c \in Creds |-> IF c = 1 THEN FullCred ELSE RefreshOnlyCred]
    /\ call = NoCall
    /\ remote = [c \in Creds |-> Files]
    /\ PipeIdle

SyncPassNext ==
    \/ SchedulerNext
    \/ SyncNext
    \/ \E a \in Attempts : PruneSteps(a)

SpecSync == SyncInit /\ [][SyncPassNext]_vars

(***************************************************************************)
(* The life of the Runs: Runs are created, their passes run, a day passes  *)
(* and check_for_prune cleans up, on one account that holds a file and one *)
(* that is empty.                                                          *)
(***************************************************************************)
RunsInit ==
    /\ LibIdle
    /\ now = 0
    /\ credential = [c \in Creds |-> FullCred]
    /\ call = NoCall
    /\ remote = [c \in Creds |-> IF c = 1 THEN {1} ELSE {}]
    /\ PipeIdle

RunsNext ==
    \/ SchedulerNext
    \/ SyncNext
    \/ \E a \in Attempts : PruneSteps(a)
    \/ check_for_prune
    \/ PruneSteps(Pruner)
    \/ \E d \in TickSteps : tick(d)

SpecRuns == RunsInit /\ [][RunsNext]_vars

\* both tables empty, as init_db_schema creates them, and no transaction yet
TxInit ==
    /\ listing = NoListing
    /\ search = NoSearch
    /\ chunked = NoChunking
    /\ engine = NoEngine
    /\ tx = [status |-> "tx", n |-> 0, procs |-> [t \in TxProcs |-> NoTxProc]]
    /\ storage = NoStorage
    /\ beat = NoBeat
    /\ now = 0
    /\ credential = [c \in Creds |-> FullCred]
    /\ call = NoCall
    /\ remote = [c \in Creds |-> {}]
    /\ PipeIdle

SpecTx == TxInit /\ [][TxNext]_vars

(***************************************************************************)
(* The sync passes together with the processing tasks they queue, on the   *)
(* same two accounts.                                                      *)
(***************************************************************************)
ProcessingNext ==
    \/ SchedulerNext
    \/ SyncNext
    \/ \E a \in Attempts : PruneSteps(a)
    \/ DocNext

SpecProcessing == RunsInit /\ [][ProcessingNext]_vars

(***************************************************************************)
(* sync_all_documents on its own: the rows of document with their          *)
(* doc_updated_at, the local copies with their mtime, one call.            *)
(***************************************************************************)
LocalInit ==
    /\ listing = NoListing
    /\ search = NoSearch
    /\ chunked = NoChunking
    /\ engine = NoEngine
    /\ tx = NoTx
    /\ beat = NoBeat
    /\ \E rows \in [Files -> {NoRow, NoTime} \cup 1..MaxStamp],
          local \in [Files -> {NoCopy} \cup {Copy(at) : at \in 0..MaxStamp}] :
             storage = [status |-> "ready", rows |-> rows, local |-> local,
                        before |-> local, removed |-> [f \in Files |-> FALSE],
                        outcome |-> [f \in Files |-> "ok"],
                        stats |-> [total |-> 0, downloaded |-> 0, updated |-> 0,
                                   skipped |-> 0, errors |-> 0]]
    /\ now = 0
    /\ credential = [c \in Creds |-> FullCred]
    /\ call = NoCall
    /\ remote = [c \in Creds |-> Files]
    /\ PipeIdle

local_call(removed, outcome) ==
    LET r == sync_all_documents(storage.rows, storage.local, removed, outcome, MaxStamp + 1)
    IN  /\ storage.status = "ready"
        /\ storage' = [storage EXCEPT !.status = "synced", !.local = r.local,
                          !.removed = removed, !.outcome = outcome, !.stats = r.stats]
        /\ UNCHANGED <<tokenVars, pipeVars, listing, search, chunked, engine, tx, beat>>

LocalNext ==
    \E removed \in [Files -> BOOLEAN], outcome \in [Files -> DownloadOutcomes] :
        local_call(removed, outcome)

SpecLocal == LocalInit /\ [][LocalNext]_vars

(***************************************************************************)
(* The scheduler on its own: the first k scopes never synced, the others   *)
(* synced at time 0, which is more than five minutes ago.                  *)
(***************************************************************************)
BeatInit ==
    /\ listing = NoListing
    /\ search = NoSearch
    /\ chunked = NoChunking
    /\ engine = NoEngine
    /\ tx = NoTx
    /\ storage = NoStorage
    /\ \E k \in 0..MaxBeatScopes :
          beat = [status |-> "beat", running |-> {},
                  cc |-> [s \in BeatScopes |->
                             IF s <= k
                             THEN [last_successful_index_time |-> NoTime,
                                   last_attempt_status |-> "NOT_STARTED"]
                             ELSE [last_successful_index_time |-> 0,
                                   last_attempt_status |-> "SUCCESS"]]]
    /\ now = BeatNow
    /\ credential = [c \in Creds |-> FullCred]
    /\ call = NoCall
    /\ remote = [c \in Creds |-> Files]
    /\ PipeIdle

SpecBeat == BeatInit /\ [][BeatNext]_vars

\* the beat schedule starts check_for_indexing every few minutes, and every
\* dispatched pass ends
FairBeat ==
    /\ WF_vars(beat_check)
    /\ \A s \in BeatScopes : WF_vars(\E ok \in BOOLEAN : beat_pass(s, ok))
SpecBeatFair == SpecBeat /\ FairBeat

(***************************************************************************)
(* _prune_deleted_documents on its own: called directly, as its test does, *)
(* on every store the sync passes can leave and every remote file set.     *)
(***************************************************************************)
PruneInit ==
    /\ LibIdle
    /\ now = 0
    /\ credential = [c \in Creds |-> FullCred]
    /\ call = NoCall
    /\ remote \in [Creds -> SUBSET Files]
    /\ link \in [Pairs -> {0, 1}]
    /\ document = [d \in DocIds |-> IF \E s \in Scopes : link[<<d, s>>] > 0 THEN 1 ELSE 0]
    /\ esIndex = {d \in DocIds : document[d] > 0}
    /\ localFiles \in SUBSET Files
    /\ attempt = [a \in Attempts |-> NoAttempt]
    /\ ccpair = [s \in Scopes |->
                    [last_successful_index_time |-> NoTime,
                     last_attempt_status |-> "NOT_STARTED",
                     total_docs_indexed |-> 0]]
    /\ nextAttempt = 1
    /\ task = [a \in Attempts |-> IdleTask]
    /\ pr = [p \in Procs |-> NoPrune]
    /\ cfp = IdleCfp
    /\ cfi = <<>>
    /\ docq = {}
    /\ hist = NoHist
    /\ outside = [c \in Creds |-> {}]

\* one check_for_prune task over stores that hold stale rows and files
SweepNext == check_for_prune \/ PruneSteps(Pruner)

SpecSweep == PruneInit /\ [][SweepNext]_vars

\* the ids the Remote Enumerator yields for a scope's configuration
Enumerated(s) == {DocId(f) : f \in list_all_items(CredOf[s], ScopeConfig[s])}

\* The stores as earlier passes left them, in step with the remote set; then
\* the remote set changes and passes are triggered.
ConvergeInit ==
    /\ LibIdle
    /\ now = 0
    /\ credential = [c \in Creds |-> FullCred]
    /\ call = NoCall
    /\ remote = [c \in Creds |-> Files]
    /\ outside = [c \in Creds |-> {}]
    /\ link = [x \in Pairs |-> IF x[1] \in Enumerated(x[2]) THEN 1 ELSE 0]
    /\ document = [d \in DocIds |-> IF \E s \in Scopes : d \in Enumerated(s) THEN 1 ELSE 0]
    /\ esIndex = {d \in DocIds : \E s \in Scopes : d \in Enumerated(s)}
    /\ localFiles = Files
    /\ attempt = [a \in Attempts |-> NoAttempt]
    /\ ccpair = [s \in Scopes |->
                    [last_successful_index_time |-> 0,
                     last_attempt_status |-> "SUCCESS",
                     total_docs_indexed |-> Cardinality(Enumerated(s))]]
    /\ nextAttempt = 1
    /\ task = [a \in Attempts |-> IdleTask]
    /\ pr = [p \in Procs |-> NoPrune]
    /\ cfp = IdleCfp
    /\ cfi = <<>>
    /\ docq = {}
    /\ hist = NoHist

ConvergeNext ==
    \/ \E s \in Scopes : trigger_sync(s)
    \/ SyncNext
    \/ \E a \in Attempts : PruneSteps(a)
    \/ \E c \in Creds, f \in Files : remote_change(c, f)
    \/ \E c \in Creds, f \in Files : remote_leaves_config(c, f)

SpecConverge == ConvergeInit /\ [][ConvergeNext]_vars

\* the same passes with the docprocessing tasks they queue
OrphanNext == ConvergeNext \/ DocNext
SpecOrphans == ConvergeInit /\ [][OrphanNext]_vars

(***************************************************************************)
(* Recovery: the scopes have been synced at time 0, Runs are created by    *)
(* the scheduler and the endpoints, their passes run, fail or are cut off  *)
(* by the end of their worker process.                                     *)
(***************************************************************************)
\* the worker process ends in the middle of pass a: no statement of the task
\* runs any more, its except branch included, and no row is written
terminate(a) ==
    /\ task[a].pc \in {"list", "select", "insert", "finalize", "localsync"}
    /\ task' = [task EXCEPT ![a].pc = "dead"]
    /\ UNCHANGED <<tokenVars, remote, outside, libVars, storeVars, runVars, pr, cfp, cfi, docq, hist>>

RecoverNext ==
    \/ SchedulerNext
    \/ SyncNext
    \/ \E a \in Attempts : PruneSteps(a)
    \/ \E a \in Attempts : terminate(a)
    \/ \E c \in Creds, f \in Files : remote_change(c, f)

SpecRecover == ConvergeInit /\ [][RecoverNext]_vars

\* list_all_items is called, twice, on each tree with each configuration
ListInit ==
    /\ now = 0
    /\ credential = [c \in Creds |-> FullCred]
    /\ call = NoCall
    /\ remote = [c \in Creds |-> Files]
    /\ PipeIdle
    /\ \E ff \in BOOLEAN :
          \E tree \in Trees(ff), config \in ListConfigs :
             listing = [status |-> "ready", tree |-> tree, config |-> config,
                        calls |-> 0, out |-> <<>>, prev |-> <<>>]
    /\ search = NoSearch
    /\ chunked = NoChunking
    /\ tx = NoTx
    /\ storage = NoStorage
    /\ beat = NoBeat
    /\ engine = NoEngine

list_call ==
    /\ listing.status # "idle"
    /\ listing.calls < MaxListCalls
    /\ listing' = [listing EXCEPT
                       !.status = "done",
                       !.calls = @ + 1,
                       !.prev = listing.out,
                       !.out = box_list_all_items(listing.tree, listing.config)]
    /\ UNCHANGED <<tokenVars, pipeVars, search, chunked, engine, tx, storage, beat>>

SpecList == ListInit /\ [][list_call]_vars

\* SmartChunker.chunk_document is called, twice, on each text
MaxChunkCalls == 2
ChunkInit ==
    /\ now = 0
    /\ credential = [c \in Creds |-> FullCred]
    /\ call = NoCall
    /\ remote = [c \in Creds |-> Files]
    /\ PipeIdle
    /\ listing = NoListing
    /\ search = NoSearch
    /\ \E n \in 1..MaxParagraphs :
          \E text \in Texts(n) :
             chunked = [status |-> "ready", doc_id |-> DocId(1), text |-> text,
                        calls |-> 0, out |-> <<>>, prev |-> <<>>]
    /\ engine = NoEngine
    /\ tx = NoTx
    /\ storage = NoStorage
    /\ beat = NoBeat

chunk_call ==
    /\ chunked.status # "idle"
    /\ chunked.calls < MaxChunkCalls
    /\ chunked' = [chunked EXCEPT
                       !.status = "done",
                       !.calls = @ + 1,
                       !.prev = chunked.out,
                       !.out = smart_chunk_document(chunked.doc_id, chunked.text)]
    /\ UNCHANGED <<tokenVars, pipeVars, listing, search, engine, tx, storage, beat>>

SpecChunk == ChunkInit /\ [][chunk_call]_vars

\* encode_batch is called on each list of texts, the model loading or not
\* and each set of batches failing
EncodeInit ==
    /\ now = 0
    /\ credential = [c \in Creds |-> FullCred]
    /\ call = NoCall
    /\ remote = [c \in Creds |-> Files]
    /\ PipeIdle
    /\ listing = NoListing
    /\ chunked = NoChunking
    /\ tx = NoTx
    /\ storage = NoStorage
    /\ beat = NoBeat
    /\ search = NoSearch
    /\ engine \in [status : {"ready"}, model : BOOLEAN, texts : Batches,
                    failed : SUBSET BatchNumbers, out : {<<>>}]

encode_call ==
    /\ engine.status = "ready"
    /\ engine' = [engine EXCEPT
                      !.status = "encoded",
                      !.out = encode_batch(engine.texts, engine.model, engine.failed)]
    /\ UNCHANGED <<tokenVars, pipeVars, listing, search, chunked, tx, storage, beat>>

SpecEncode == EncodeInit /\ [][encode_call]_vars

\* calls of encode_text on a CachedEmbeddingService of each cache_size, the
\* model encoding or failing at each call
CacheInit ==
    /\ now = 0
    /\ credential = [c \in Creds |-> FullCred]
    /\ call = NoCall
    /\ remote = [c \in Creds |-> Files]
    /\ PipeIdle
    /\ listing = NoListing
    /\ chunked = NoChunking
    /\ tx = NoTx
    /\ storage = NoStorage
    /\ beat = NoBeat
    /\ search = NoSearch
    /\ engine \in [status : {"cache"}, cache_size : 1..MaxCacheSize, cache : {<<>>},
                   n : {0}, last : {NoIndexCall}]

cache_call(text, model) ==
    LET r == cached_encode_text(engine.cache, engine.cache_size, text, model, engine.n + 1)
    IN  /\ engine.status = "cache"
        /\ engine.n < MaxCacheCalls
        /\ engine' = [engine EXCEPT
                          !.cache = r.cache,
                          !.n = @ + 1,
                          !.last = [op |-> "encode_text", text |-> text,
                                    result |-> r.result, hit |-> r.hit,
                                    before |-> Len(engine.cache)]]
        /\ UNCHANGED <<tokenVars, pipeVars, listing, search, chunked, tx, storage, beat>>

CacheNext == \E text \in CacheTexts, model \in BOOLEAN : cache_call(text, model)

SpecCache == CacheInit /\ [][CacheNext]_vars

\* calls of the module index.py while the embedding model comes and goes;
\* the advanced index exists already or does not
EngineInit ==
    /\ now = 0
    /\ credential = [c \in Creds |-> FullCred]
    /\ call = NoCall
    /\ remote = [c \in Creds |-> Files]
    /\ PipeIdle
    /\ listing = NoListing
    /\ chunked = NoChunking
    /\ tx = NoTx
    /\ storage = NoStorage
    /\ beat = NoBeat
    /\ search = NoSearch
    /\ engine \in [status : {"on"}, model : BOOLEAN, exists : BOOLEAN, advanced : {FALSE},
                    records : {{}}, basic : {{}}, n : {0}, last : {NoIndexCall}]

EngineCalls == engine.status = "on" /\ engine.n < MaxEngineCalls

engine_index(doc_id, text) ==
    /\ EngineCalls
    /\ engine' = module_index_document(engine, doc_id, text)
    /\ UNCHANGED <<tokenVars, pipeVars, listing, search, chunked, tx, storage, beat>>

engine_hybrid_search(query) ==
    /\ EngineCalls
    /\ engine' = module_hybrid_search(engine, query)
    /\ UNCHANGED <<tokenVars, pipeVars, listing, search, chunked, tx, storage, beat>>

engine_search(query) ==
    /\ EngineCalls
    /\ engine' = module_search(engine, query)
    /\ UNCHANGED <<tokenVars, pipeVars, listing, search, chunked, tx, storage, beat>>

\* the model becomes unavailable (not installed, not loadable, out of
\* memory) or available
model_changes ==
    /\ engine.status = "on"
    /\ engine' = [engine EXCEPT !.model = ~@]
    /\ UNCHANGED <<tokenVars, pipeVars, listing, search, chunked, tx, storage, beat>>

EngineNext ==
    \/ \E d \in IndexDocs, text \in EngineTexts : engine_index(d, text)
    \/ \E query \in Queries : engine_hybrid_search(query)
    \/ \E query \in Queries : engine_search(query)
    \/ model_changes

SpecEngine == EngineInit /\ [][EngineNext]_vars

\* calls of index_document, delete_document and search on an empty index
IndexInit ==
    /\ now = 0
    /\ credential = [c \in Creds |-> FullCred]
    /\ call = NoCall
    /\ remote = [c \in Creds |-> Files]
    /\ PipeIdle
    /\ listing = NoListing
    /\ chunked = NoChunking
    /\ tx = NoTx
    /\ storage = NoStorage
    /\ beat = NoBeat
    /\ search = [status |-> "up", records |-> {}, n |-> 0, last |-> NoIndexCall]
    /\ engine = NoEngine

index_call(doc_id, text, ok) ==
    LET r == index_document(search.records, doc_id, text, search.n + 1, ok)
    IN  /\ search.status = "up"
        /\ search.n < MaxIndexCalls
        /\ search' = [search EXCEPT
                          !.records = r.records,
                          !.n = @ + 1,
                          !.last = [op |-> "index", doc_id |-> doc_id, text |-> text,
                                    status |-> r.status, chunks |-> r.chunks]]
        /\ UNCHANGED <<tokenVars, pipeVars, listing, chunked, engine, tx, storage, beat>>

delete_call(doc_id, ok) ==
    LET r == delete_document(search.records, doc_id, ok)
    IN  /\ search.status = "up"
        /\ search.n < MaxIndexCalls
        /\ search' = [search EXCEPT
                          !.records = r.records,
                          !.n = @ + 1,
                          !.last = [op |-> "delete", doc_id |-> doc_id,
                                    status |-> r.status, deleted |-> r.deleted]]
        /\ UNCHANGED <<tokenVars, pipeVars, listing, chunked, engine, tx, storage, beat>>

\* a keyword query whose hits are the given records
search_call(hits) ==
    /\ search.status = "up"
    /\ search.n < MaxIndexCalls
    /\ hits # <<>>
    /\ search' = [search EXCEPT
                      !.n = @ + 1,
                      !.last = [op |-> "search", hits |-> hits,
                                results |-> process_search_results(hits)]]
    /\ UNCHANGED <<tokenVars, pipeVars, listing, chunked, engine, tx, storage, beat>>

IndexNext ==
    \/ \E d \in IndexDocs, text \in IndexTexts, ok \in BOOLEAN : index_call(d, text, ok)
    \/ \E d \in IndexDocs, ok \in BOOLEAN : delete_call(d, ok)
    \/ \E hits \in HitLists(search.records, MaxHits) : search_call(hits)

SpecIndex == IndexInit /\ [][IndexNext]_vars

\* _process_search_results is called on each response of at most MaxRawHits
\* hits: chunks of document 1, chunks of document 2 and the whole-document
\* record of document 2, with scores of 1..MaxScore in any order
MaxRawHits == 5
MaxScore == 2
HitKinds == {<<1, "chunk">>, <<2, "chunk">>, <<2, "whole">>}
RawHit(kind, i, at) ==
    IF kind[2] = "whole"
    THEN single_record(DocId(kind[1]), << <<12>> >>, at)
    ELSE chunk_record(DocId(kind[1]),
                      create_chunk(DocId(kind[1]), words_str(200), i, 0, 0), at)
RawKinds(n) ==
    {k \in [1..n -> HitKinds] : Cardinality({i \in 1..n : k[i][2] = "whole"}) <= 1}
RawResponse(kinds, scores) ==
    [i \in 1..Len(kinds) |-> [hit |-> RawHit(kinds[i], i, 1), score |-> scores[i]]]

ResultsInit ==
    /\ now = 0
    /\ credential = [c \in Creds |-> FullCred]
    /\ call = NoCall
    /\ remote = [c \in Creds |-> Files]
    /\ PipeIdle
    /\ listing = NoListing
    /\ chunked = NoChunking
    /\ tx = NoTx
    /\ storage = NoStorage
    /\ beat = NoBeat
    /\ \E n \in 0..MaxRawHits :
          \E kinds \in RawKinds(n), scores \in [1..n -> 1..MaxScore] :
             search = [status |-> "response", hits |-> RawResponse(kinds, scores),
                       results |-> <<>>]
    /\ engine = NoEngine

results_call ==
    /\ search.status = "response"
    /\ search' = [search EXCEPT !.status = "processed",
                                !.results = process_response(search.hits)]
    /\ UNCHANGED <<tokenVars, pipeVars, listing, chunked, engine, tx, storage, beat>>

SpecResults == ResultsInit /\ [][results_call]_vars

PruneNext ==
    \/ PruneSteps(Direct)
    \/ \E c \in Creds, f \in Files : remote_change(c, f)

SpecPrune == PruneInit /\ [][PruneNext]_vars

TokenNext ==
    \E toks \in Responses, persistOK \in BOOLEAN : TokenCall(1, toks, persistOK)

SpecToken == TokenInit /\ [][TokenNext]_vars

(***************************************************************************)
(* Claims about the token refresher (checked under SpecToken).             *)
(***************************************************************************)
CallMade == call.status # "none"
CallAccess == Or(call.before.access_token, call.before.box_access_token)
CallRefresh == Or(call.before.refresh_token, call.before.box_refresh_token)
\* the stored expiry is known and the clock is within the margin of it
CallExpired ==
    /\ parse_expires_at(call.before.expires_at) # NoExp
    /\ call.at >= parse_expires_at(call.before.expires_at) - Margin

\* C5: for a credential that is due for a refresh (expiry passed, within the
\* margin, or unknown) and has a refresh token, a call makes exactly one
\* exchange and, when it returns, returns the access token of the provider's
\* answer and leaves that token and the newest refresh token (the prior one if
\* the answer has none) in the store.  (An answer without an access token is
\* left out: it has no new token to speak of.)
C5_RefreshOnExpiry ==
    (/\ CallMade
     /\ need_refresh(call.before, call.at)
     /\ CallRefresh # NoToken
     /\ ~(call.toks.ok /\ call.toks.access_token = NoToken))
    => /\ call.result.exchanges = 1
       /\ call.status = "returned" =>
            /\ call.result.token = call.toks.access_token
            /\ credential[call.cred].access_token = call.toks.access_token
            /\ credential[call.cred].refresh_token
                    = Or(call.toks.refresh_token, CallRefresh)

\* C6: a call raises whenever the access token is absent or expired and there
\* is no refresh token or the exchange fails, and a token it returns without
\* a refresh is never past its expiry margin.
C6_FailsWithoutUsableToken ==
    /\ (/\ CallMade
        /\ CallAccess = NoToken \/ CallExpired
        /\ CallRefresh = NoToken \/ ~call.toks.ok)
       => call.status = "raised"
    /\ (/\ call.status = "returned"
        /\ ~call.result.refreshed
        /\ parse_expires_at(call.before.expires_at) # NoExp)
       => call.at < parse_expires_at(call.before.expires_at) - Margin

\* C7: when a call returns a token it got from a refresh exchange, the store
\* already holds the new access token, refresh token and expiry.
C7_PersistedBeforeReturn ==
    (call.status = "returned" /\ call.result.refreshed)
    => credential[call.cred] = refreshed_creds(call.before, call.at, call.toks)

(***************************************************************************)
(* Claims about reconciliation (checked under SpecPrune).                  *)
(***************************************************************************)
PastDb(p) == pr[p].stage \in {"files", "es", "done"}

C2_SharedDocumentKept ==
    [][\A p \in Procs, d \in DocIds :
          (/\ pr[p].stage = "db" /\ pr'[p].stage = "files"
           /\ \E s \in Scopes \ {pr[p].cc} : Linked(d, s))
          => /\ document'[d] = document[d]
             /\ \A s \in Scopes \ {pr[p].cc} : link'[<<d, s>>] = link[<<d, s>>]]_vars

\* a pass has unlinked a document that another scope links, and it is kept
C2_Witness ==
    \E p \in Procs, d \in DocIds :
        /\ PastDb(p) /\ d \in pr[p].to_remove
        /\ DocExists(d)
        /\ \E s \in Scopes \ {pr[p].cc} : Linked(d, s)

\* C3: the index clean-up of a prune pass leaves the index records of every
\* document that a scope still links.
C3_IndexKeptWhileLinked ==
    [][\A p \in Procs, d \in DocIds :
          (/\ pr[p].stage = "es" /\ pr'[p].stage = "done"
           /\ d \in esIndex
           /\ \E s \in Scopes : Linked(d, s))
          => d \in esIndex']_vars

(***************************************************************************)
(* Claims about the sync passes (checked under SpecSync).                  *)
(***************************************************************************)
Finished(a) == task[a].pc \in {"done", "failed"}
ItemsOf(a) == {task[a].items[i] : i \in 1..Len(task[a].items)}

\* C4: whatever the interleaving of the sync passes, the document table holds
\* at most one row per source id, and once the passes are over, every file
\* that a pass listed has its one row and the membership link of the scope
\* of that pass.
C4_OneRecordOneLinkPerScope ==
    /\ \A d \in DocIds : document[d] <= 1
    /\ \A x \in Pairs : link[x] <= 1
    /\ (\A a \in Attempts : task[a].pc = "none" \/ Finished(a)) =>
          \A a \in Attempts : \A f \in ItemsOf(a) :
              /\ document[DocId(f)] = 1
              /\ link[<<DocId(f), task[a].cc>>] = 1

\* the step of pass a in which its token resolution raises or its listing
\* fails
FailsEarly(a) == task[a].pc \in {"queued", "list"} /\ task'[a].pc = "failed"

Terminal(row) == row.status \in {"SUCCESS", "FAILED"}

C10_ProcessingFailureFailsRun ==
    \A a \in hist.procFailed :
        Finished(a) =>
            /\ attempt[a].status = "FAILED"
            /\ attempt[a].error_msg # ""
            /\ (\A b \in Attempts \ {a} : attempt[b].cc # attempt[a].cc)
                  => ccpair[attempt[a].cc].last_attempt_status = "FAILED"

\* C11: once a pass has marked its Run SUCCESS, no step of its local-copy
\* sync or of its inline prune, failing or not, changes the Run, the
\* last_attempt_status of any scope, or the outcome of the task: the Run stays
\* SUCCESS and the task goes on to return its success result.
C11_LateFailuresHarmless ==
    [][\A a \in Attempts :
          (task[a].pc \in {"localsync", "prune"} /\ (task'[a] # task[a] \/ pr'[a] # pr[a])) =>
              /\ attempt[a].status = "SUCCESS"
              /\ attempt'[a] = attempt[a]
              /\ ccpair' = ccpair
              /\ task'[a].pc \in {"prune", "done"}]_vars

\* a task has returned success although its local sync left a record without
\* a copy and its inline prune raised
C11_Witness ==
    \E a \in Attempts :
        /\ task[a].pc = "done"
        /\ task[a].n > 0
        /\ pr[a].stage = "raised"
        /\ attempt[a].status = "SUCCESS"
        /\ \E f \in Files : DocExists(DocId(f)) /\ f \notin localFiles

\* the listed files of pass a that its scope did not track before the pass
NewlyTracked(a) == Cardinality(ItemsOf(a) \ task[a].tracked)

\* C12: when a pass marks its Run SUCCESS, the Run's new_docs_indexed is the
\* number of listed files the scope did not track before the pass, and the
\* scope's total_docs_indexed grows by that number (so by 0 when every listed
\* file was tracked already).
C12_CountsNewlyTracked ==
    [][\A a \in Attempts :
          (task[a].pc = "finalize" /\ task'[a].pc # "finalize") =>
              /\ attempt'[a].new_docs_indexed = NewlyTracked(a)
              /\ ccpair'[task[a].cc].total_docs_indexed =
                     ccpair[task[a].cc].total_docs_indexed + NewlyTracked(a)]_vars

\* a sync pass that has started and has not returned or raised
InFlight(a) == task[a].pc \notin {"none", "queued", "done", "failed"}

\* C15: at any time no two sync passes of one scope are in flight, and no two
\* prune passes of one scope are in flight.
C15_OnePassPerScope ==
    /\ \A a, b \in Attempts :
          (a # b /\ InFlight(a) /\ InFlight(b)) => task[a].cc # task[b].cc
    /\ \A p, q \in Procs :
          (p # q /\ Running(p) /\ Running(q)) => pr[p].cc # pr[q].cc

\* C16: a check_for_prune pass starts with every ACTIVE scope on its list;
\* whenever the prune of the scope at the head of the list ends, by a result
\* or by an exception, exactly that scope leaves the list (the others stay
\* to be attempted, and the pass ends only with an empty list), and the
\* totals grow by the removals of a prune that returned and by nothing for
\* one that raised, so what the other scopes removed stays counted.
C16_SweepSurvivesScopeFailure ==
    [][/\ (cfp.pc = "idle" /\ cfp'.pc # "idle") => cfp'.todo = SortedSeq(Scopes)
       /\ (cfp.pc = "scopes" /\ cfp' # cfp) =>
             LET raised == pr'[Pruner].stage = "raised"
             IN  /\ pr'[Pruner].cc = Head(cfp.todo)
                 /\ cfp'.todo = Tail(cfp.todo)
                 /\ (cfp'.pc = "idle") = (cfp'.todo = <<>>)
                 /\ cfp'.cleaned_attempts = cfp.cleaned_attempts
                 /\ cfp'.db_docs_removed = cfp.db_docs_removed +
                        (IF raised THEN 0 ELSE pr'[Pruner].removed_from_db)
                 /\ cfp'.local_files_removed = cfp.local_files_removed +
                        (IF raised THEN 0 ELSE pr'[Pruner].removed_local_files)]_vars

\* a pass is over: the prune of scope 1 failed (the scope still tracks a file
\* its account no longer holds), the prune of scope 2 ran after it and its
\* removals are in the result
C16_Witness ==
    /\ hist.sweeps > 0
    /\ cfp.pc = "idle"
    /\ \E f \in Files : f \notin remote[CredOf[1]] /\ Linked(DocId(f), 1)
    /\ pr[Pruner].cc = 2
    /\ pr[Pruner].stage = "done"
    /\ pr[Pruner].removed_from_db > 0
    /\ cfp.db_docs_removed = pr[Pruner].removed_from_db

(***************************************************************************)
(* Claims about list_all_items (checked under SpecList).                   *)
(***************************************************************************)
\* the folders reachable from a set of folders through subfolders
SubfoldersOf(tree, S) ==
    S \cup {e.id : e \in {x \in UNION {Range(tree[g]) : g \in S} : x.type = "folder"}}
RECURSIVE ReachableFrom(_, _)
ReachableFrom(tree, S) ==
    IF SubfoldersOf(tree, S) = S THEN S ELSE ReachableFrom(tree, SubfoldersOf(tree, S))

\* the roots of a configuration: its folder_ids, or the account root
RootsOf(config) == IF config.folder_ids = <<>> THEN {"0"} ELSE Range(config.folder_ids)

\* the allow-list of a configuration, without case and leading dots
AllowList(config) == {lstrip_dot(lower(e)) : e \in Range(config.include_exts)}

\* the files the listing is to yield
Expected(tree, config) ==
    {e.id : e \in
        {x \in UNION {Range(tree[g]) : g \in ReachableFrom(tree, RootsOf(config))} :
            /\ x.type = "file"
            /\ x.item_status # "trashed"
            /\ AllowList(config) # {} => extension(x.name) \in AllowList(config)
            /\ (config.max_size_mb # NoMb /\ x.size # NoSize) =>
                   x.size <= config.max_size_mb * MB}}

\* C13: list_all_items yields exactly the files that lie under the configured
\* roots at any depth and on any page, are not trashed, have an extension of
\* the allow-list when there is one, and a size within the maximum when there
\* is one; a second call on the same tree yields the same set of ids.
C13_ListsExactlyTheAllowedFiles ==
    listing.status = "done" =>
        /\ Range(listing.out) = Expected(listing.tree, listing.config)
        /\ listing.calls = 2 => Range(listing.prev) = Range(listing.out)

\* a listing was made of a tree whose root takes more than one page and holds
\* a file two folders deep, with an allow-list and a maximum size that each
\* keep a file out, and a trashed file; it yielded a file of the second page
\* and the deep file
C13_Witness ==
    /\ listing.status = "done"
    /\ listing.config.folder_ids = <<>>
    /\ listing.config.include_exts # <<>>
    /\ listing.config.max_size_mb # NoMb
    /\ Len(listing.tree["0"]) > PageLimit
    /\ LET e == listing.tree["0"][Len(listing.tree["0"])]
       IN  e.type = "file" /\ e.id \in Range(listing.out)
    /\ \E e \in Range(listing.tree["A"]) : e.type = "folder"
    /\ \E e \in Range(listing.tree["B"]) : e.type = "file" /\ e.id \in Range(listing.out)
    /\ \E g \in FolderIds : \E e \in Range(listing.tree[g]) :
          e.type = "file" /\ e.item_status = "trashed"

\* pass a is a pass of scope s that returned success with its Run SUCCESS and
\* its prune finished, and what it and its prune listed is what the remote
\* side holds now (the remote set has not changed since)
CleanPass(a, s) ==
    /\ task[a].cc = s
    /\ task[a].pc = "done"
    /\ attempt[a].status = "SUCCESS"
    /\ pr[a].stage = "done"
    /\ ItemsOf(a) = list_all_items(CredOf[s], ScopeConfig[s])
    /\ pr[a].R = {DocId(f) : f \in list_all_items(CredOf[s], PruneConfig)}

\* C14: once the remote set of a scope has stopped changing and the sync
\* passes of the scope, each with its prune, have completed without error
\* on that remote set, the document ids linked to the scope are the ids the
\* listing yields for the scope's configuration.
C14_LinksConverge ==
    \A s \in Scopes :
        (\A a \in Attempts : CleanPass(a, s)) =>
            {d \in DocIds : Linked(d, s)} = Enumerated(s)

(***************************************************************************)
(* Claims about concurrent calls of the token refresher (checked under     *)
(* SpecRace).                                                              *)
(***************************************************************************)
\* C35: after any interleaving of calls of the refresher on one credential,
\* once the calls have ended, the stored credential holds the access token,
\* the refresh token and the expiry of one exchange, and that exchange is the
\* latest the provider has answered.
C35_StoredIsLatestTokenSet ==
    (/\ call.status = "race"
     /\ \A p \in RaceProcs : call.procs[p].pc = "done"
     /\ \E p \in RaceProcs : call.procs[p].exchanged) =>
        /\ credential[RaceCred].access_token = call.issued
        /\ credential[RaceCred].refresh_token = call.issued
        /\ credential[RaceCred].expires_at = now + RefreshExpiresIn

(***************************************************************************)
(* Claims about the chunker (checked under SpecChunk).                     *)
(***************************************************************************)
\* C20: the chunks SmartChunker.chunk_document returns for a document have
\* the chunk ids of the document with the ordinals 0, 1, 2, ... in order (so
\* pairwise distinct), and each chunk's chunk_index is the ordinal of its id,
\* also when an oversized paragraph was split into sub-chunks.
C20_ChunkOrdinals ==
    chunked.status = "done" =>
        \A i \in 1..Len(chunked.out) :
            /\ chunked.out[i].chunk_id = ChunkId(chunked.doc_id, i - 1)
            /\ chunked.out[i].chunk_index = i - 1

WithinOverlap(stretch) ==
    \/ SumWords(stretch) <= OverlapSize
    \/ estimate_tokens(words_str(SumWords(stretch))) <= OverlapSize

Before(a, b) == a[1] < b[1] \/ (a[1] = b[1] /\ a[2] < b[2])

\* C21: for a text of at least min_chunk_size characters the chunks, taken in
\* order with the overlaps removed, hold the sentences of the text in the
\* order of the text, each once, and no stretch of consecutive sentences
\* longer than the configured overlap is missing from them.
C21_ChunksCoverTheText ==
    (chunked.status = "done" /\ text_str(Tag(chunked.text)).len >= MinChunkSize) =>
        LET flat == Flatten(Tag(chunked.text))
            out == chunked.out
            covered == UNION {out[k].text.units : k \in 1..Len(out)}
        IN  /\ \A k, m \in 1..Len(out) :
                   k < m => \A a \in out[k].text.units, b \in out[m].text.units : Before(a, b)
            /\ \A i, j \in 1..Len(flat) :
                   (i <= j /\ \A k \in i..j : flat[k].at \notin covered)
                       => WithinOverlap(SubSeq(flat, i, j))

\* the paragraphs of the text whose estimated token count exceeds chunk_size
\* and that have more than one sentence to be split at, each long enough to
\* be kept by _split_into_sentences
Oversized(text) ==
    {p \in 1..Len(text) :
        /\ Len(text[p]) >= 2
        /\ \A i \in 1..Len(text[p]) : words_str(text[p][i]).len > MinSentenceLen
        /\ estimate_tokens(paragraph_str(Tag(text)[p])) > ChunkSize}

\* C31: no chunk SmartChunker.chunk_document returns holds the whole of a
\* paragraph whose estimated token count exceeds chunk_size: such a paragraph
\* is split at its sentences, wherever it stands in the text.
C31_OversizedParagraphSplit ==
    chunked.status = "done" =>
        \A p \in Oversized(chunked.text), k \in 1..Len(chunked.out) :
            \E i \in 1..Len(chunked.text[p]) : <<p, i>> \notin chunked.out[k].text.units

\* the number of words of the sentences at the places S of the text
RECURSIVE UnitWords(_, _)
UnitWords(text, S) ==
    IF S = {} THEN 0
    ELSE LET at == CHOOSE x \in S : TRUE
         IN  text[at[1]][at[2]] + UnitWords(text, S \ {at})

\* C32: in a text without a paragraph larger than chunk_size, where every
\* chunk but the last is closed because the next unit would exceed
\* chunk_size, the chunk after a closed chunk is the last overlap_size words
\* of the closed chunk (all of it, when it has no more) followed by the units
\* the chunk adds.
C32_NextChunkStartsWithOverlap ==
    (/\ chunked.status = "done"
     /\ \A p \in 1..Len(chunked.text) :
           estimate_tokens(paragraph_str(Tag(chunked.text)[p])) <= ChunkSize) =>
        \A k \in 1..(Len(chunked.out) - 1) :
            chunked.out[k + 1].text.words =
                (IF chunked.out[k].text.words <= OverlapSize
                 THEN chunked.out[k].text.words ELSE OverlapSize)
                + UnitWords(chunked.text, chunked.out[k + 1].text.units)

(***************************************************************************)
(* Claims about the processing of search results (checked under            *)
(* SpecResults).                                                           *)
(***************************************************************************)
\* the scores of the hits of parent d in a response
ScoresOf(hits, d) == {hits[i].score : i \in {j \in 1..Len(hits) : parent_id(hits[j].hit) = d}}

\* C33: _process_search_results returns one result for each parent document
\* id among the hits and no other; the score of a result is the greatest
\* score of the hits of its document; its chunks are hits of its document,
\* each once, at most 3, in descending order of score, and no hit of the
\* document that is left out has a greater score than one that is kept; all
\* of them are kept when the document has at most 3 hits; and the results are
\* in descending order of score.
C33_ResultsGroupedAndRanked ==
    search.status = "processed" =>
        LET hits == search.hits
            results == search.results
            Parents == {parent_id(hits[i].hit) : i \in 1..Len(hits)}
        IN  /\ {results[k].doc_id : k \in 1..Len(results)} = Parents
            /\ Len(results) = Cardinality(Parents)
            /\ \A k \in 1..Len(results) :
                  LET res == results[k]
                      mine == {i \in 1..Len(hits) : parent_id(hits[i].hit) = res.doc_id}
                      kept == {i \in mine : \E c \in 1..Len(res.chunks) :
                                              /\ res.chunks[c].chunk_id = hits[i].hit.id
                                              /\ res.chunks[c].score = hits[i].score}
                  IN  /\ \A s \in ScoresOf(hits, res.doc_id) : s <= res.score
                      /\ res.score \in ScoresOf(hits, res.doc_id)
                      /\ Len(res.chunks) <= TopChunks
                      /\ Len(res.chunks) =
                            (IF Cardinality(mine) < TopChunks THEN Cardinality(mine)
                             ELSE TopChunks)
                      /\ Cardinality(kept) = Len(res.chunks)
                      /\ \A c, e \in 1..Len(res.chunks) :
                            c < e => /\ res.chunks[c].score >= res.chunks[e].score
                                     /\ res.chunks[c].chunk_id # res.chunks[e].chunk_id
                      /\ \A i \in mine \ kept, j \in kept : hits[i].score <= hits[j].score
            /\ \A k, m \in 1..Len(results) : k < m => results[k].score >= results[m].score

\* a response in descending order of score, as the search index returns it,
\* with four hits of one document, the best of them after a hit of another
\* document, has been processed
C33_Witness ==
    /\ search.status = "processed"
    /\ Len(search.hits) = MaxRawHits
    /\ \A i \in 1..(Len(search.hits) - 1) : search.hits[i].score >= search.hits[i + 1].score
    /\ \E k \in 1..Len(search.results) : search.results[k].total_chunks > TopChunks
    /\ Len(search.results) = 2

(***************************************************************************)
(* Further claims about the sync passes and the scheduler.                 *)
(***************************************************************************)
\* C25: the insert of a sync pass ignores a Document Record that exists: when
\* a pass comes to insert a source id, a pass of another scope having
\* inserted it in the meantime or not, the pass does not fail, and after the
\* step the document table holds exactly one row of that id and the scope of
\* the pass holds its membership link.
C25_InsertIgnoresExisting ==
    [][\A a \in Attempts :
          (task[a].pc = "insert" /\ task'[a].pc # "insert") =>
              LET d == DocId(task[a].items[task[a].n])
              IN  /\ task'[a].pc # "failed"
                  /\ document'[d] = 1
                  /\ link'[<<d, task[a].cc>>] = 1]_vars

\* C26: a round of a sync pass on a listed file that its scope tracked
\* already when the pass listed inserts no row, neither a Document Record nor
\* a membership link, and queues no processing task (also when no other pass
\* is under way).
C26_TrackedFilesNotRequeued ==
    [][\A a \in Attempts :
          (/\ task[a].pc = "insert" /\ task'[a].pc # "insert"
           /\ task[a].items[task[a].n] \in task[a].tracked
           /\ \A b \in Attempts \ {a} : task[b].pc \in {"none", "done", "failed"})
          => /\ document' = document
             /\ link' = link
             /\ docq' = docq]_vars

C28_PruneListsScopeConfig ==
    [][\A p \in Procs :
          (pr[p].stage = "list" /\ pr'[p].stage = "db") =>
              pr'[p].R = Enumerated(pr[p].cc)]_vars

\* C29: a scope whose last Run ended FAILED is due. When a pass fails its
\* scope is due at once; the query of check_for_indexing selects every scope
\* whose status is FAILED (when no more scopes are due than the limit of the
\* pass); each round of its loop creates a new IN_PROGRESS Run, in a row that
\* did not exist, for the scope it selected; and no step changes a FAILED Run
\* or moves its task.
C29_FailedScopeDueAgain ==
    [][/\ \A a \in Attempts, s \in Scopes :
             (/\ attempt[a].status = "IN_PROGRESS"
              /\ attempt'[a].status = "FAILED"
              /\ attempt[a].cc = s) => Due(s)'
       /\ (cfi = <<>> /\ cfi' # <<>>) =>
             \A s \in Scopes :
                (/\ ccpair[s].last_attempt_status = "FAILED"
                 /\ Cardinality({x \in Scopes : Due(x)}) <= IndexingLimit) =>
                    \E i \in 1..Len(cfi') : cfi'[i] = s
       /\ (cfi # <<>> /\ cfi' # cfi) =>
             /\ attempt[nextAttempt].status = "absent"
             /\ attempt'[nextAttempt].status = "IN_PROGRESS"
             /\ attempt'[nextAttempt].cc = Head(cfi)
             /\ task'[nextAttempt].pc = "queued"
       /\ \A a \in Attempts :
             attempt[a].status = "FAILED" =>
                attempt'[a] = attempt[a] /\ task'[a] = task[a]]_vars

\* the query has selected a scope whose Run has failed and whose last
\* success is too recent to make it due
C29_Witness ==
    \E a \in Attempts :
       /\ attempt[a].status = "FAILED"
       /\ cfi = <<attempt[a].cc>>
       /\ ccpair[attempt[a].cc].last_successful_index_time = now
       /\ ccpair[attempt[a].cc].last_attempt_status = "FAILED"

\* the pass of Run a was cut off by the end of its worker, and no later Run
\* of its scope exists
Abandoned(a) ==
    /\ task[a].pc = "dead"
    /\ \A b \in Attempts : b > a => attempt[b].status = "absent" \/ attempt[b].cc # task[a].cc

\* C30: after a worker ends in the middle of a sync pass, the Run stays
\* IN_PROGRESS, and a scope that the Run has left with the status
\* IN_PROGRESS is due, so that the next scheduling pass dispatches it again.
C30_AbandonedRunIsStale ==
    \A a \in Attempts :
       Abandoned(a) =>
          /\ attempt[a].status = "IN_PROGRESS"
          /\ ccpair[task[a].cc].last_attempt_status = "IN_PROGRESS" => Due(task[a].cc)

(***************************************************************************)
(* Claims about the embedding service (checked under SpecEncode and        *)
(* SpecEngine).                                                            *)
(***************************************************************************)
\* the batch the text at position i is encoded in: blank texts are in none
BatchOf(texts, i) ==
    (Cardinality({k \in 1..i : ~blank(texts[k])}) - 1) \div BatchSize + 1

\* C23: encode_batch returns a list as long as its input; position i holds
\* the embedding of text i (of its first 8000 characters, for a longer one),
\* or None when the text is blank, its batch failed to encode or the model
\* did not load; blank entries and failed batches shift nothing and the call
\* returns in every case.
C23_EncodeBatchAligned ==
    engine.status = "encoded" =>
        /\ Len(engine.out) = Len(engine.texts)
        /\ \A i \in 1..Len(engine.texts) :
               engine.out[i] =
                   IF \/ blank(engine.texts[i])
                      \/ ~engine.model
                      \/ BatchOf(engine.texts, i) \in engine.failed
                   THEN NoEmbedding
                   ELSE Embedding(truncate(engine.texts[i]))
\* four texts, the second blank: the batch of the first and third failed,
\* the fourth was encoded
C23_Witness ==
    /\ engine.status = "encoded"
    /\ engine.model
    /\ Len(engine.texts) = 4
    /\ blank(engine.texts[2])
    /\ \A i \in {1, 3, 4} : ~blank(engine.texts[i])
    /\ engine.failed = {1}
    /\ engine.out[3] = NoEmbedding
    /\ engine.out[4] = Embedding(truncate(engine.texts[4]))

\* the entries of a cache
Entries(cache) == {cache[i] : i \in 1..Len(cache)}

C24_EmbeddingFailureDegrades ==
    (engine.status = "on" /\ engine.last.op # "none" /\ ~engine.last.model) =>
        /\ engine.last.op = "index" =>
               /\ engine.last.status = "success"
               /\ \/ \E b \in engine.basic : b.id = engine.last.doc_id
                  \/ \E w \in engine.records :
                         w.rec.doc_id = engine.last.doc_id /\ w.rec.indexed_at = engine.n
               /\ \A w \in engine.records :
                      w.rec.indexed_at = engine.n => w.embedding = NoEmbedding
        /\ (engine.last.op = "hybrid_search" /\ ~blank(engine.last.query)) =>
               engine.last.outcome = "keyword"
        /\ (engine.last.op = "search" /\ ~blank(engine.last.query)) =>
               engine.last.outcome \in {"keyword", "basic"}

(***************************************************************************)
(* Claims about the search index (checked under SpecIndex).                *)
(***************************************************************************)
\* the records of a document: those with its id or a chunk id of it as _id,
\* or with its id in doc_id or parent_doc_id
RecordsOf(records, d) ==
    {r \in records :
        \/ r.id = d
        \/ (r.id \notin IndexDocs /\ r.id[1] = d)
        \/ r.doc_id = d
        \/ r.parent_doc_id = d}

\* C17: after index_document(d, text) has succeeded, every record of d in
\* the index was written by that call: no chunk and no whole-document record
\* of an earlier indexing of d is left.
C17_ReindexReplaces ==
    (search.status = "up" /\ search.last.op = "index" /\ search.last.status = "success") =>
        \A r \in RecordsOf(search.records, search.last.doc_id) : r.indexed_at = search.n

C19_TotalChunks ==
    (search.status = "up" /\ search.last.op = "search") =>
        \A i \in 1..Len(search.last.hits) :
            LET h == search.last.hits[i]
                d == h.parent_doc_id
            IN  (/\ h.is_chunk
                 /\ Cardinality({r \in search.records : r.parent_doc_id = d}) >= 2
                 /\ \A j \in 1..Len(search.last.hits) :
                        j # i => parent_id(search.last.hits[j]) # d) =>
                    \E k \in 1..Len(search.last.results) :
                        LET res == search.last.results[k]
                        IN  /\ res.doc_id = d
                            /\ \E c \in 1..Len(res.chunks) : res.chunks[c].chunk_id = h.id
                            /\ res.total_chunks >= 2

(***************************************************************************)
(* Claims about concurrent transactions of sync and prune passes.          *)
(***************************************************************************)
TxQuiet == tx.status = "tx" /\ \A t \in TxProcs : ~TxOpen(t)

\* C36: once the transactions of the sync and prune passes have ended, in
\* whatever order their statements ran, every membership link references an
\* existing Document Record and every Document Record has at least one
\* membership link
C36_LinksAndRecordsAgree ==
    TxQuiet =>
        /\ \A x \in Pairs : link[x] > 0 => document[x[1]] > 0
        /\ \A d \in DocIds : document[d] > 0 => RefCount(link, d) > 0

(***************************************************************************)
(* Claims about index records of deleted documents.                        *)
(***************************************************************************)
AllFinished ==
    /\ docq = {}
    /\ \A a \in Attempts : task[a].pc \in {"none", "done", "failed"}
    /\ \A p \in Procs : pr[p].stage \in {"off", "done", "raised"}

\* C37: once every queued docprocessing task, every sync pass and every
\* prune pass has finished, the Search Index holds records only for ids that
\* have a Document Record
C37_NoIndexRecordWithoutDocument ==
    AllFinished => \A d \in esIndex : document[d] > 0

(***************************************************************************)
(* Claims about the local copies.                                          *)
(***************************************************************************)
\* the documents whose copy needed an update and whose re-download failed
FailedUpdates ==
    {f \in Files : /\ storage.rows[f] # NoRow
                   /\ storage.before[f] # NoCopy
                   /\ needs_update(storage.rows[f], storage.before[f])
                   /\ storage.outcome[f] # "ok"}

Dispatched(s) ==
    \/ beat.cc[s].last_attempt_status \in {"IN_PROGRESS", "FAILED"}
    \/ beat.cc[s].last_successful_index_time = BeatNow

\* C38: a scope that is due from some point on is eventually dispatched by
\* a check_for_indexing pass, whatever the other scopes do
C38_DueScopeEventuallyDispatched ==
    \A s \in BeatScopes :
        (<>[]DueRow(beat.cc[s], BeatNow)) => <>Dispatched(s)

(***************************************************************************)
(* Claims about the records index_document writes.                         *)
(***************************************************************************)
\* C39: after index_document on a text that is not blank, with the search
\* index answering, the index holds at least one record of the document
C39_NonBlankTextIsIndexed ==
    (/\ search.status = "up"
     /\ search.last.op = "index"
     /\ search.last.text # <<>>
     /\ search.last.status # "error") =>
        \E r \in search.records : parent_id(r) = search.last.doc_id

====
